---------------------------- MODULE Spec2Model ----------------------------
(***************************************************************************)
(* A model of tspf-rs: the TSPLIB parser (TspBuilder::parse_it and its     *)
(* section parsers), the two validation passes, build, and the edge-weight *)
(* query Tsp::weight.                                                      *)
(*                                                                         *)
(* The line iterator is the environment: each action of the dispatch loop  *)
(* is one iteration of `while let Some(line) = itr.next()`, together with  *)
(* every further line the handler it calls pulls from the same iterator.   *)
(* A Rust panic (unwrap on None, index or drain out of range,              *)
(* unimplemented!, todo!) ends the parse with result tag "Panic".          *)
(***************************************************************************)
EXTENDS Integers, Sequences, FiniteSets, TLC

VARIABLES
    builder,    \* the TspBuilder being filled by parse_it
    pc,         \* "scan": in the dispatch loop; "done": parse_it returned or
                \* panicked; "queried": the caller has queried the instance
    result,     \* what parse_it returned: Ok, Err(e) or a panic
    tsp,        \* Option<Tsp>: the instance of an Ok result
    matrix,     \* the logical weight matrix the input text encodes (input)
    wtab,       \* the answers of Tsp::weight, once queried
    file,       \* the lines of the input text, where a model fixes the text
    consumed    \* how many lines of file the iterator has yielded

vars == <<builder, pc, result, tsp, matrix, wtab, file, consumed>>

----------------------------------------------------------------------------
(* Bounds of the model.                                                    *)

\* Largest DIMENSION whose weight matrices are enumerated over WeightVals.
MaxDim == 3
\* Largest DIMENSION whose asymmetric full matrices are enumerated.
MaxFullDim == 2
\* Largest DIMENSION a specification line of the dispatch model declares.
MaxSpecDim == 2
\* Largest node identifier of a coordinate line and of a weight query.
MaxId == 2
\* Most tokens on one line of an encoded edge-weight section.
MaxPerLine == 3
\* Most lines a tour section of the dispatch model pulls.
MaxTourLines == 2

\* Token values of the enumerated weight matrices.
WeightVals == {0, 7}

----------------------------------------------------------------------------
(* Option<T>: None is the empty tuple, Some(x) the one-element tuple.      *)

None == <<>>
Some(x) == <<x>>
IsSome(o) == o # <<>>
IsNone(o) == o = <<>>
Unwrap(o) == o[1]
UnwrapOr(o, d) == IF o = <<>> THEN d ELSE o[1]

----------------------------------------------------------------------------
(* Result<_, ParseTspError> and panics.                                    *)

NoErr == <<>>
MissingEntry(k) == <<"MissingEntry", k>>
InvalidEntry(k) == <<"InvalidEntry", k>>
InvalidInput(k, v) == <<"InvalidInput", k, v>>

Ok == [tag |-> "Ok", err |-> NoErr]
Err(e) == [tag |-> "Err", err |-> e]
Panic == [tag |-> "Panic", err |-> NoErr]
Pending == [tag |-> "Pending", err |-> NoErr]

\* Keywords.
K_NAME == "NAME"
K_TYPE == "TYPE"
K_DIM == "DIMENSION"
K_CAP == "CAPACITY"
K_WEIGHT_TYPE == "EDGE_WEIGHT_TYPE"
K_WEIGHT_FORMAT == "EDGE_WEIGHT_FORMAT"
K_EDGE_FORMAT == "EDGE_DATA_FORMAT"
K_NODE_COORD_TYPE == "NODE_COORD_TYPE"
K_DISP_TYPE == "DISPLAY_DATA_TYPE"
K_NODE_COORD_SEC == "NODE_COORD_SECTION"
K_EDGE_WEIGHT_SEC == "EDGE_WEIGHT_SECTION"
K_TOUR_SEC == "TOUR_SECTION"

----------------------------------------------------------------------------
(* The enumerations and their fallible conversions from a keyword token.   *)

TspKindTryFrom(tok) ==
    CASE tok = "TSP" -> Ok @@ [val |-> "Tsp"]
      [] tok = "ATSP" -> Ok @@ [val |-> "Atsp"]
      [] tok = "SOP" -> Ok @@ [val |-> "Sop"]
      [] tok = "HCP" -> Ok @@ [val |-> "Hcp"]
      [] tok = "CVRP" -> Ok @@ [val |-> "Cvrp"]
      [] tok = "TOUR" -> Ok @@ [val |-> "Tour"]
      [] OTHER -> Err(InvalidInput(K_TYPE, tok)) @@ [val |-> "Undefined"]

WeightKindTryFrom(tok) ==
    CASE tok = "EXPLICIT" -> Ok @@ [val |-> "Explicit"]
      [] tok = "EUC_2D" -> Ok @@ [val |-> "Euc2d"]
      [] tok = "EUC_3D" -> Ok @@ [val |-> "Euc3d"]
      [] tok = "MAX_2D" -> Ok @@ [val |-> "Max2d"]
      [] tok = "MAX_3D" -> Ok @@ [val |-> "Max3d"]
      [] tok = "MAN_2D" -> Ok @@ [val |-> "Man2d"]
      [] tok = "MAN_3D" -> Ok @@ [val |-> "Man3d"]
      [] tok = "CEIL_2D" -> Ok @@ [val |-> "Ceil2d"]
      [] tok = "GEO" -> Ok @@ [val |-> "Geo"]
      [] tok = "ATT" -> Ok @@ [val |-> "Att"]
      [] tok = "XRAY1" -> Ok @@ [val |-> "Xray1"]
      [] tok = "XRAY2" -> Ok @@ [val |-> "Xray2"]
      [] tok = "SPECIAL" -> Ok @@ [val |-> "Custom"]
      [] OTHER -> Err(InvalidInput(K_WEIGHT_TYPE, tok)) @@ [val |-> "Undefined"]

WeightFormatTryFrom(tok) ==
    CASE tok = "FUNCTION" -> Ok @@ [val |-> "Function"]
      [] tok = "FULL_MATRIX" -> Ok @@ [val |-> "FullMatrix"]
      [] tok = "UPPER_ROW" -> Ok @@ [val |-> "UpperRow"]
      [] tok = "LOWER_ROW" -> Ok @@ [val |-> "LowerRow"]
      [] tok = "UPPER_DIAG_ROW" -> Ok @@ [val |-> "UpperDiagRow"]
      [] tok = "LOWER_DIAG_ROW" -> Ok @@ [val |-> "LowerDiagRow"]
      [] tok = "UPPER_COL" -> Ok @@ [val |-> "UpperCol"]
      [] tok = "LOWER_COL" -> Ok @@ [val |-> "LowerCol"]
      [] tok = "UPPER_DIAG_COL" -> Ok @@ [val |-> "UpperDiagCol"]
      [] tok = "LOWER_DIAG_COL" -> Ok @@ [val |-> "LowerDiagCol"]
      [] OTHER -> Err(InvalidInput(K_WEIGHT_FORMAT, tok)) @@ [val |-> "Undefined"]

\* EdgeFormat::EdgeList carries the edge list; the list is the second component.
EdgeList(v) == <<"EdgeList", v>>
AdjList == <<"AdjList", <<>>>>
EdgeFormatUndefined == <<"Undefined", <<>>>>

EdgeFormatTryFrom(tok) ==
    CASE tok = "EDGE_LIST" -> Ok @@ [val |-> EdgeList(<<>>)]
      [] tok = "ADJ_LIST" -> Ok @@ [val |-> AdjList]
      [] OTHER -> Err(InvalidInput(K_EDGE_FORMAT, tok)) @@ [val |-> EdgeFormatUndefined]

CoordKindTryFrom(tok) ==
    CASE tok = "TWOD_COORDS" -> Ok @@ [val |-> "Coord2d"]
      [] tok = "THREED_COORDS" -> Ok @@ [val |-> "Coord3d"]
      [] tok = "NO_COORDS" -> Ok @@ [val |-> "NoCoord"]
      [] OTHER -> Err(InvalidInput(K_NODE_COORD_TYPE, tok)) @@ [val |-> "Undefined"]

DisplayKindTryFrom(tok) ==
    CASE tok = "COORD_DISPLAY" -> Ok @@ [val |-> "DispCoo"]
      [] tok = "TWOD_DISPLAY" -> Ok @@ [val |-> "Disp2d"]
      [] tok = "NO_DISPLAY" -> Ok @@ [val |-> "NoDisp"]
      [] OTHER -> Err(InvalidInput(K_DISP_TYPE, tok)) @@ [val |-> "Undefined"]

\* impl From<WeightKind> for CoordKind
CoordKindFromWeightKind(kind) ==
    CASE kind \in {"Euc2d", "Max2d", "Man2d", "Ceil2d", "Geo", "Att"} -> "Coord2d"
      [] kind \in {"Euc3d", "Max3d", "Man3d"} -> "Coord3d"
      [] OTHER -> "Undefined"

----------------------------------------------------------------------------
(* The builder: every field an Option, None after TspBuilder::new().       *)

NewBuilder ==
    [name |-> None, kind |-> None, comment |-> None, dim |-> None,
     capacity |-> None, weight_kind |-> None, weight_format |-> None,
     edge_format |-> None, coord_kind |-> None, disp_kind |-> None,
     coords |-> None, depots |-> None, demands |-> None,
     edge_weights |-> None, disp_coords |-> None, fixed_edges |-> None,
     tours |-> None]


----------------------------------------------------------------------------
(* Faulty variants of validate_spec: one rule left out.                    *)

\* Without the CAPACITY rule of CVRP.
ValidateSpecNoCapacity(b) ==
    IF IsNone(b.name) THEN Err(MissingEntry(K_NAME))
    ELSE IF IsNone(b.kind) THEN Err(MissingEntry(K_TYPE))
    ELSE IF Unwrap(b.kind) \in {"Tsp", "Atsp", "Cvrp", "Sop"} /\ IsNone(b.weight_kind)
    THEN Err(MissingEntry(K_WEIGHT_TYPE))
    ELSE IF Unwrap(b.kind) = "Hcp" /\ IsNone(b.edge_format)
    THEN Err(MissingEntry(K_EDGE_FORMAT))
    ELSE IF Unwrap(b.kind) # "Tour" /\ IsNone(b.dim)
    THEN Err(MissingEntry(K_DIM))
    ELSE Ok

\* With the DIMENSION rule applied before the rules of the kind.
ValidateSpecDimensionFirst(b) ==
    IF IsNone(b.name) THEN Err(MissingEntry(K_NAME))
    ELSE IF IsNone(b.kind) THEN Err(MissingEntry(K_TYPE))
    ELSE IF Unwrap(b.kind) # "Tour" /\ IsNone(b.dim)
    THEN Err(MissingEntry(K_DIM))
    ELSE IF Unwrap(b.kind) \in {"Tsp", "Atsp", "Cvrp", "Sop"} /\ IsNone(b.weight_kind)
    THEN Err(MissingEntry(K_WEIGHT_TYPE))
    ELSE IF Unwrap(b.kind) = "Cvrp" /\ IsNone(b.capacity)
    THEN Err(MissingEntry(K_CAP))
    ELSE IF Unwrap(b.kind) = "Hcp" /\ IsNone(b.edge_format)
    THEN Err(MissingEntry(K_EDGE_FORMAT))
    ELSE Ok

\* Without the DIMENSION rule.
ValidateSpecNoDimension(b) ==
    IF IsNone(b.name) THEN Err(MissingEntry(K_NAME))
    ELSE IF IsNone(b.kind) THEN Err(MissingEntry(K_TYPE))
    ELSE IF Unwrap(b.kind) \in {"Tsp", "Atsp", "Cvrp", "Sop"} /\ IsNone(b.weight_kind)
    THEN Err(MissingEntry(K_WEIGHT_TYPE))
    ELSE IF Unwrap(b.kind) = "Cvrp" /\ IsNone(b.capacity)
    THEN Err(MissingEntry(K_CAP))
    ELSE IF Unwrap(b.kind) = "Hcp" /\ IsNone(b.edge_format)
    THEN Err(MissingEntry(K_EDGE_FORMAT))
    ELSE Ok

----------------------------------------------------------------------------
(* TspBuilder::validate_spec: the first violated rule, or Ok.              *)

ValidateSpec(b) ==
    IF IsNone(b.name) THEN Err(MissingEntry(K_NAME))
    ELSE IF IsNone(b.kind) THEN Err(MissingEntry(K_TYPE))
    ELSE LET kind == Unwrap(b.kind)
             dimRule == IF kind # "Tour" /\ IsNone(b.dim)
                        THEN Err(MissingEntry(K_DIM)) ELSE Ok
         IN  CASE kind \in {"Tsp", "Atsp", "Cvrp", "Sop"} ->
                    IF IsNone(b.weight_kind)
                    THEN Err(MissingEntry(K_WEIGHT_TYPE))
                    ELSE IF Unwrap(b.weight_kind) = "Undefined"
                    THEN Err(InvalidEntry(K_WEIGHT_TYPE))
                    ELSE IF kind = "Cvrp" /\ IsNone(b.capacity)
                    THEN Err(MissingEntry(K_CAP))
                    ELSE dimRule
               [] kind = "Hcp" ->
                    IF IsNone(b.edge_format)
                    THEN Err(MissingEntry(K_EDGE_FORMAT))
                    ELSE IF Unwrap(b.edge_format) = EdgeFormatUndefined
                    THEN Err(InvalidEntry(K_EDGE_FORMAT))
                    ELSE dimRule
               [] kind = "Tour" -> dimRule
               [] OTHER -> Err(InvalidEntry(K_TYPE))

\* A faulty data rule: only the explicit weights are required.
WeightDataRuleExplicitOnly(b) ==
    IF Unwrap(b.weight_kind) = "Explicit" /\ IsNone(b.edge_weights)
    THEN Err(MissingEntry(K_EDGE_WEIGHT_SEC))
    ELSE Ok

(* TspBuilder::validate_data, called only after validate_spec passed.      *)
(* kind.unwrap() and weight_kind.unwrap() panic on None.                   *)
WeightDataRule(b) ==
    IF Unwrap(b.weight_kind) = "Explicit"
    THEN IF IsNone(b.edge_weights)
         THEN Err(MissingEntry(K_EDGE_WEIGHT_SEC)) ELSE Ok
    ELSE IF IsNone(b.coords)
         THEN Err(MissingEntry(K_NODE_COORD_SEC)) ELSE Ok

ValidateData(b) ==
    IF IsNone(b.kind) THEN Panic
    ELSE LET kind == Unwrap(b.kind)
             first ==
                CASE kind \in {"Tsp", "Atsp", "Cvrp"} ->
                        IF IsNone(b.weight_kind) THEN Panic
                        ELSE WeightDataRule(b)
                  [] kind = "Tour" ->
                        IF IsNone(b.tours)
                        THEN Err(MissingEntry(K_TOUR_SEC)) ELSE Ok
                  [] OTHER -> Ok
         IN  IF first # Ok THEN first
             ELSE IF IsSome(b.weight_kind) THEN WeightDataRule(b)
             ELSE Ok

(* Faulty variant of the instance: an unset capacity takes the dimension.  *)
MakeTspCapacityFromDim(b) ==
    [name |-> Unwrap(b.name),
     kind |-> Unwrap(b.kind),
     comment |-> UnwrapOr(b.comment, ""),
     dim |-> UnwrapOr(b.dim, 0),
     capacity |-> UnwrapOr(b.capacity, UnwrapOr(b.dim, 0)),
     weight_kind |-> UnwrapOr(b.weight_kind, "Undefined"),
     weight_format |-> UnwrapOr(b.weight_format, "Undefined"),
     edge_format |-> UnwrapOr(b.edge_format, EdgeFormatUndefined),
     coord_kind |-> UnwrapOr(b.coord_kind, "Undefined"),
     disp_kind |-> UnwrapOr(b.disp_kind, "Undefined"),
     node_coords |-> UnwrapOr(b.coords, <<>>),
     demands |-> UnwrapOr(b.demands, <<>>),
     depots |-> UnwrapOr(b.depots, {}),
     edge_weights |-> UnwrapOr(b.edge_weights, <<>>),
     disp_coords |-> UnwrapOr(b.disp_coords, <<>>),
     fixed_edges |-> UnwrapOr(b.fixed_edges, <<>>),
     tours |-> UnwrapOr(b.tours, <<>>)]

(* The Tsp instance build assembles, every unset field at its default.     *)
MakeTsp(b) ==
    [name |-> Unwrap(b.name),
     kind |-> Unwrap(b.kind),
     comment |-> UnwrapOr(b.comment, ""),
     dim |-> UnwrapOr(b.dim, 0),
     capacity |-> UnwrapOr(b.capacity, 0),
     weight_kind |-> UnwrapOr(b.weight_kind, "Undefined"),
     weight_format |-> UnwrapOr(b.weight_format, "Undefined"),
     edge_format |-> UnwrapOr(b.edge_format, EdgeFormatUndefined),
     coord_kind |-> UnwrapOr(b.coord_kind, "Undefined"),
     disp_kind |-> UnwrapOr(b.disp_kind, "Undefined"),
     node_coords |-> UnwrapOr(b.coords, <<>>),
     demands |-> UnwrapOr(b.demands, <<>>),
     depots |-> UnwrapOr(b.depots, {}),
     edge_weights |-> UnwrapOr(b.edge_weights, <<>>),
     disp_coords |-> UnwrapOr(b.disp_coords, <<>>),
     fixed_edges |-> UnwrapOr(b.fixed_edges, <<>>),
     tours |-> UnwrapOr(b.tours, <<>>)]

(* TspBuilder::build: validate_spec, then validate_data, then the instance.*)
BuildResult(b) ==
    IF ValidateSpec(b) # Ok THEN ValidateSpec(b)
    ELSE ValidateData(b)

Build(b) ==
    /\ result' = BuildResult(b)
    /\ tsp' = IF BuildResult(b) = Ok THEN Some(MakeTsp(b)) ELSE None
    /\ pc' = "done"

----------------------------------------------------------------------------
(* Tsp::weight.  Vectors are 0-indexed in the code and 1-indexed here; an  *)
(* index outside a vector is a panic, reported as WPanic.                  *)

W(x) == [ok |-> TRUE, w |-> x]
WPanic == [ok |-> FALSE, w |-> 0]

\* self.edge_weights[r][c]
Cell(rows, r, c) ==
    IF r >= 0 /\ r < Len(rows)
    THEN IF c >= 0 /\ c < Len(rows[r + 1])
         THEN W(rows[r + 1][c + 1])
         ELSE WPanic
    ELSE WPanic

Abs(x) == IF x < 0 THEN 0 - x ELSE x
Max2(x, y) == IF x < y THEN y ELSE x
Min2(x, y) == IF x < y THEN x ELSE y

\* MetricPoint x(), y(), z() of a coordinate vector; z of a 2-D point is 0.
PX(p) == p[1]
PY(p) == p[2]
PZ(p) == IF Len(p) >= 3 THEN p[3] ELSE 0

\* A faulty cost: the Manhattan distance for every kind, Custom and Undefined included.
CostWithoutDefault(kind, a, b) == Abs(PX(a) - PX(b)) + Abs(PY(a) - PY(b))

(* MetricKind::cost on integer coordinates.  The distances that are exact  *)
(* on integers are computed; the others (square roots, trigonometry,       *)
(* divisions) stay symbolic: the formula's name and its arguments.         *)
Cost(kind, a, b) ==
    CASE kind = "Man2d" -> Abs(PX(a) - PX(b)) + Abs(PY(a) - PY(b))
      [] kind = "Man3d" ->
            Abs(PX(a) - PX(b)) + Abs(PY(a) - PY(b)) + Abs(PZ(a) - PZ(b))
      [] kind = "Max2d" -> Max2(Abs(PX(a) - PX(b)), Abs(PY(a) - PY(b)))
      [] kind = "Max3d" ->
            Max2(Max2(Abs(PX(a) - PX(b)), Abs(PY(a) - PY(b))),
                 Abs(PZ(a) - PZ(b)))
      [] kind = "Xray1" ->
            LET dx == Abs(PX(a) - PX(b))
                p == Min2(dx, Abs(dx - 360))
            IN  100 * Max2(p, Max2(Abs(PY(a) - PY(b)), Abs(PZ(a) - PZ(b))))
      [] kind \in {"Euc2d", "Euc3d", "Geo", "Att", "Xray2", "Ceil2d"} ->
            <<kind, a, b>>
      [] OTHER -> 0

\* A faulty FullMatrix arm: the transposed cell.
WeightFullMatrixTransposed(rows, a, b) == Cell(rows, b, a)

\* WeightFormat::FullMatrix => self.edge_weights[a][b]
WeightFullMatrix(rows, a, b) == Cell(rows, a, b)

\* WeightFormat::UpperRow | WeightFormat::LowerCol
WeightUpperRow(rows, a, b) ==
    IF a < b THEN Cell(rows, a, b - a - 1)
    ELSE IF a = b THEN W(0)
    ELSE Cell(rows, b, a - b - 1)

\* A faulty UpperDiagRow arm: the diagonal answered as 0, as where none is stored.
WeightUpperDiagRowZeroDiag(rows, a, b) ==
    IF a < b THEN Cell(rows, a, b - a)
    ELSE IF a = b THEN W(0)
    ELSE Cell(rows, b, a - b)

\* WeightFormat::UpperDiagRow | WeightFormat::LowerDiagCol
WeightUpperDiagRow(rows, a, b) ==
    IF a < b THEN Cell(rows, a, b - a) ELSE Cell(rows, b, a - b)

\* A faulty LowerRow arm: the Less case not mirrored.
WeightLowerRowUnmirrored(rows, a, b) ==
    IF a = b THEN W(0) ELSE Cell(rows, a - 1, b)

\* WeightFormat::LowerRow | WeightFormat::UpperCol
WeightLowerRow(rows, a, b) ==
    IF a < b THEN Cell(rows, b - 1, a)
    ELSE IF a = b THEN W(0)
    ELSE Cell(rows, a - 1, b)

\* A faulty LowerDiagRow arm: the column counted from the diagonal.
WeightLowerDiagRowFromDiag(rows, a, b) ==
    IF a < b THEN Cell(rows, b, b - a) ELSE Cell(rows, a, a - b)

\* WeightFormat::LowerDiagRow | WeightFormat::UpperDiagCol
WeightLowerDiagRow(rows, a, b) ==
    IF a < b THEN Cell(rows, b, a) ELSE Cell(rows, a, b)

\* The arm of a weight kind other than Explicit.
WeightByCoords(t, a, b) ==
    IF a \in DOMAIN t.node_coords /\ b \in DOMAIN t.node_coords
    THEN W(Cost(t.weight_kind, t.node_coords[a].pos, t.node_coords[b].pos))
    ELSE W(0)

Weight(t, a, b) ==
    IF t.weight_kind = "Explicit"
    THEN CASE t.weight_format = "Function" -> W(0)
           [] t.weight_format = "FullMatrix" ->
                 WeightFullMatrix(t.edge_weights, a, b)
           [] t.weight_format \in {"UpperRow", "LowerCol"} ->
                 WeightUpperRow(t.edge_weights, a, b)
           [] t.weight_format \in {"UpperDiagRow", "LowerDiagCol"} ->
                 WeightUpperDiagRow(t.edge_weights, a, b)
           [] t.weight_format \in {"LowerRow", "UpperCol"} ->
                 WeightLowerRow(t.edge_weights, a, b)
           [] t.weight_format \in {"LowerDiagRow", "UpperDiagCol"} ->
                 WeightLowerDiagRow(t.edge_weights, a, b)
           [] OTHER -> W(0)
    ELSE WeightByCoords(t, a, b)

----------------------------------------------------------------------------
(* Section parsers.  A section parser is given ls, the lines that follow   *)
(* its header in the input, and yields an outcome: how the call ended      *)
(* (res), the builder it leaves (b) and how many lines of ls it pulled     *)
(* from the iterator (used).  Pulling a line when ls is used up is         *)
(* lines_it.next().unwrap() on None: a panic.                              *)

Outcome(res, b, used) == [res |-> res, b |-> b, used |-> used]

(* A trimmed line: its whitespace-separated tokens when they are all       *)
(* integers (kw = ""), or the keyword it starts with; after a keyword and  *)
(* a colon, toks holds a numeric value and val the text of any other.      *)
DataLine(toks) == [kw |-> "", toks |-> toks, val |-> ""]
KeyLine(kw) == [kw |-> kw, toks |-> <<>>, val |-> ""]
IsData(l) == l.kw = ""
IsBlank(l) == l.kw = "" /\ l.toks = <<>>
\* s.starts_with("-1")
IsSentinel(l) == l.kw = "" /\ l.toks # <<>> /\ l.toks[1] = -1
\* every token parses as usize
AllUsize(toks) == \A k \in 1..Len(toks) : toks[k] >= 0

\* lo, lo+1, ..., hi as a sequence (empty when hi < lo).
SeqFromTo(lo, hi) == [k \in 1..(hi - lo + 1) |-> lo + k - 1]
Reverse(s) == [k \in 1..Len(s) |-> s[Len(s) + 1 - k]]

(* The lengths of the rows the edge-weight section slices, in order: the   *)
(* iterator `it` of parse_edge_weight_section.                             *)
RowLens(fmt, dim) ==
    CASE fmt = "FullMatrix" -> [k \in 1..dim |-> dim]
      [] fmt \in {"UpperRow", "LowerCol"} -> Reverse(SeqFromTo(1, dim - 1))
      [] fmt \in {"LowerRow", "UpperCol"} -> SeqFromTo(1, dim - 1)
      [] fmt \in {"UpperDiagRow", "LowerDiagCol"} -> Reverse(SeqFromTo(1, dim))
      [] fmt \in {"LowerDiagRow", "UpperDiagCol"} -> SeqFromTo(1, dim)
      [] OTHER -> <<>>

\* cnt: the number of tokens the section collects before it stops reading.
TokenCount(fmt, dim) ==
    CASE fmt = "FullMatrix" -> dim * dim
      [] fmt \in {"UpperRow", "LowerCol", "LowerRow", "UpperCol"} ->
            (dim * (dim - 1)) \div 2
      [] fmt \in {"UpperDiagRow", "LowerDiagCol", "LowerDiagRow", "UpperDiagCol"} ->
            (dim * (dim + 1)) \div 2
      [] OTHER -> 0

\* dim - 1 on usize: the subtraction overflows at dim = 0.
DimMinusOneOverflows(fmt, dim) ==
    fmt \in {"UpperRow", "LowerCol", "LowerRow", "UpperCol"} /\ dim = 0

(* while v.len() < cnt { v.append(tokens of lines_it.next().unwrap()) }    *)
(* from line i+1 of ls on, v the tokens collected so far.                  *)
(* A token that is not a number makes parse::<f64>().unwrap() panic.       *)
RECURSIVE CollectTokens(_, _, _, _)
CollectTokens(ls, i, v, cnt) ==
    IF Len(v) >= cnt THEN [ok |-> TRUE, v |-> v, used |-> i]
    ELSE IF i >= Len(ls) THEN [ok |-> FALSE, v |-> v, used |-> i]
    ELSE IF ~IsData(ls[i + 1]) THEN [ok |-> FALSE, v |-> v, used |-> i + 1]
    ELSE CollectTokens(ls, i + 1, v \o ls[i + 1].toks, cnt)

\* if v.len() == dim + 1 { v.remove(0); }
DropExtraToken(v, dim) == IF Len(v) = dim + 1 THEN Tail(v) ELSE v

(* for len_row in it { dta.push(v.drain(0..len_row).collect()) }: drain    *)
(* panics when fewer than len_row tokens are left.                         *)
RECURSIVE SliceRows(_, _, _)
SliceRows(v, lens, dta) ==
    IF lens = <<>> THEN [ok |-> TRUE, rows |-> dta]
    ELSE IF Head(lens) > Len(v) THEN [ok |-> FALSE, rows |-> dta]
    ELSE SliceRows(SubSeq(v, Head(lens) + 1, Len(v)), Tail(lens),
                   Append(dta, SubSeq(v, 1, Head(lens))))

ParseEdgeWeightSection(b, ls) ==
    IF ValidateSpec(b) # Ok THEN Outcome(ValidateSpec(b), b, 0)
    ELSE IF IsNone(b.dim) \/ IsNone(b.weight_format) THEN Outcome(Panic, b, 0)
    ELSE LET dim == Unwrap(b.dim)
             fmt == Unwrap(b.weight_format)
         IN  IF DimMinusOneOverflows(fmt, dim) THEN Outcome(Panic, b, 0)
             ELSE LET got == CollectTokens(ls, 0, <<>>, TokenCount(fmt, dim))
                      cut == SliceRows(DropExtraToken(got.v, dim),
                                       RowLens(fmt, dim), <<>>)
                  IN  IF ~got.ok \/ ~cut.ok THEN Outcome(Panic, b, got.used)
                      ELSE Outcome(Ok,
                                   [b EXCEPT !.edge_weights = Some(cut.rows)],
                                   got.used)

(* parse_node_coord_section: validate_spec, the point parser chosen by    *)
(* coord_kind, then exactly dim lines, each `id x y` or `id x y z`.        *)
Point(id, pos) == [id |-> id, pos |-> pos]

MapInsert(m, k, v) == [x \in (DOMAIN m) \cup {k} |-> IF x = k THEN v ELSE m[x]]

RECURSIVE ReadPoints(_, _, _, _, _)
ReadPoints(ls, i, dim, need, dta) ==
    IF i >= dim THEN [ok |-> TRUE, dta |-> dta, used |-> i]
    ELSE IF i >= Len(ls) THEN [ok |-> FALSE, dta |-> dta, used |-> i]
    ELSE LET l == ls[i + 1]
         IN  IF ~IsData(l) \/ Len(l.toks) < need \/ l.toks[1] < 0
             THEN [ok |-> FALSE, dta |-> dta, used |-> i + 1]
             ELSE ReadPoints(ls, i + 1, dim, need,
                             MapInsert(dta, l.toks[1],
                                       Point(l.toks[1], SubSeq(l.toks, 2, need))))

ParseNodeCoordSection(b, ls) ==
    IF ValidateSpec(b) # Ok THEN Outcome(ValidateSpec(b), b, 0)
    ELSE IF IsNone(b.coord_kind) THEN Outcome(Panic, b, 0)
    ELSE IF Unwrap(b.coord_kind) \notin {"Coord2d", "Coord3d"}
    THEN Outcome(Panic, b, 0)
    ELSE IF IsNone(b.dim) THEN Outcome(Panic, b, 0)
    ELSE LET need == IF Unwrap(b.coord_kind) = "Coord2d" THEN 3 ELSE 4
             got == ReadPoints(ls, 0, Unwrap(b.dim), need, <<>>)
         IN  IF ~got.ok THEN Outcome(Panic, b, got.used)
             ELSE Outcome(Ok, [b EXCEPT !.coords = Some(got.dta)], got.used)

(* Faulty variant of the tour loop: a line of identifiers replaces the run *)
(* read so far instead of extending it.                                    *)
RECURSIVE TourLoopLastLineOnly(_, _, _, _)
TourLoopLastLineOnly(ls, i, v, dta) ==
    IF i >= Len(ls) THEN [ok |-> FALSE, dta |-> dta, used |-> i]
    ELSE LET l == ls[i + 1]
         IN  IF IsSentinel(l)
             THEN IF i + 1 >= Len(ls)
                  THEN [ok |-> TRUE, dta |-> Append(dta, v), used |-> i + 1]
                  ELSE LET peek == ls[i + 2]
                       IN  IF IsSentinel(peek)
                           THEN [ok |-> TRUE, dta |-> Append(dta, v), used |-> i + 2]
                           ELSE IF IsBlank(peek)
                           THEN [ok |-> FALSE, dta |-> Append(dta, v), used |-> i + 2]
                           ELSE IF IsData(peek) /\ peek.toks[1] >= 0
                           THEN IF AllUsize(peek.toks)
                                THEN TourLoopLastLineOnly(ls, i + 2, peek.toks,
                                                          Append(dta, v))
                                ELSE [ok |-> FALSE, dta |-> dta, used |-> i + 2]
                           ELSE [ok |-> TRUE, dta |-> Append(dta, v), used |-> i + 2]
             ELSE IF ~IsData(l) \/ ~AllUsize(l.toks)
             THEN [ok |-> FALSE, dta |-> dta, used |-> i + 1]
             ELSE TourLoopLastLineOnly(ls, i + 1, l.toks, dta)

(* parse_tour_section.  After a `-1` line the parser looks at the next     *)
(* line through lines_it.peekable().peek(): the Peekable is a temporary    *)
(* built on the borrowed iterator, so the line it buffers has been pulled  *)
(* from lines_it and is dropped with the temporary.                        *)
RECURSIVE TourLoop(_, _, _, _)
TourLoop(ls, i, v, dta) ==
    IF i >= Len(ls) THEN [ok |-> FALSE, dta |-> dta, used |-> i]
    ELSE LET l == ls[i + 1]
         IN  IF IsSentinel(l)
             THEN IF i + 1 >= Len(ls)
                  THEN [ok |-> TRUE, dta |-> Append(dta, v), used |-> i + 1]
                  ELSE LET peek == ls[i + 2]
                       IN  IF IsSentinel(peek)
                           THEN [ok |-> TRUE, dta |-> Append(dta, v), used |-> i + 2]
                           ELSE IF IsBlank(peek)
                           THEN [ok |-> FALSE, dta |-> Append(dta, v), used |-> i + 2]
                           ELSE IF IsData(peek) /\ peek.toks[1] >= 0
                           THEN IF AllUsize(peek.toks)
                                THEN TourLoop(ls, i + 2, peek.toks, Append(dta, v))
                                ELSE [ok |-> FALSE, dta |-> dta, used |-> i + 2]
                           ELSE [ok |-> TRUE, dta |-> Append(dta, v), used |-> i + 2]
             ELSE IF ~IsData(l) \/ ~AllUsize(l.toks)
             THEN [ok |-> FALSE, dta |-> dta, used |-> i + 1]
             ELSE TourLoop(ls, i + 1, v \o l.toks, dta)

ParseTourSection(b, ls) ==
    IF ValidateSpec(b) # Ok THEN Outcome(ValidateSpec(b), b, 0)
    ELSE LET got == TourLoop(ls, 0, <<>>, <<>>)
         IN  IF ~got.ok THEN Outcome(Panic, b, got.used)
             ELSE Outcome(Ok, [b EXCEPT !.tours = Some(got.dta)], got.used)

(* parse_demand_section: validate_spec, then dim lines; a line with two    *)
(* tokens or more gives an entry id -> demand, a shorter line gives none.  *)
(* A `KEY: value` line has two tokens, the first of which is no number.    *)
RECURSIVE ReadDemands(_, _, _, _)
ReadDemands(ls, i, dim, dta) ==
    IF i >= dim THEN [ok |-> TRUE, dta |-> dta, used |-> i]
    ELSE IF i >= Len(ls) THEN [ok |-> FALSE, dta |-> dta, used |-> i]
    ELSE LET l == ls[i + 1]
         IN  IF ~IsData(l)
             THEN IF l.toks = <<>> /\ l.val = ""   \* a lone keyword: one token, no entry
                  THEN ReadDemands(ls, i + 1, dim, dta)
                  ELSE [ok |-> FALSE, dta |-> dta, used |-> i + 1]
             ELSE IF Len(l.toks) < 2 THEN ReadDemands(ls, i + 1, dim, dta)
             ELSE IF l.toks[1] < 0 THEN [ok |-> FALSE, dta |-> dta, used |-> i + 1]
             ELSE ReadDemands(ls, i + 1, dim, MapInsert(dta, l.toks[1], l.toks[2]))

ParseDemandSection(b, ls) ==
    IF ValidateSpec(b) # Ok THEN Outcome(ValidateSpec(b), b, 0)
    ELSE IF IsNone(b.dim) THEN Outcome(Panic, b, 0)
    ELSE LET got == ReadDemands(ls, 0, Unwrap(b.dim), <<>>)
         IN  IF ~got.ok THEN Outcome(Panic, b, got.used)
             ELSE Outcome(Ok, [b EXCEPT !.demands = Some(got.dta)], got.used)

(* parse_display_data_section: validate_spec, then dim lines `id x y`,     *)
(* pushed in order as 2-D points.                                          *)
RECURSIVE ReadDisplayPoints(_, _, _, _)
ReadDisplayPoints(ls, i, dim, dta) ==
    IF i >= dim THEN [ok |-> TRUE, dta |-> dta, used |-> i]
    ELSE IF i >= Len(ls) THEN [ok |-> FALSE, dta |-> dta, used |-> i]
    ELSE LET l == ls[i + 1]
         IN  IF ~IsData(l) \/ Len(l.toks) < 3 \/ l.toks[1] < 0
             THEN [ok |-> FALSE, dta |-> dta, used |-> i + 1]
             ELSE ReadDisplayPoints(ls, i + 1, dim,
                                    Append(dta, Point(l.toks[1], SubSeq(l.toks, 2, 3))))

ParseDisplayDataSection(b, ls) ==
    IF ValidateSpec(b) # Ok THEN Outcome(ValidateSpec(b), b, 0)
    ELSE IF IsNone(b.dim) THEN Outcome(Panic, b, 0)
    ELSE LET got == ReadDisplayPoints(ls, 0, Unwrap(b.dim), <<>>)
         IN  IF ~got.ok THEN Outcome(Panic, b, got.used)
             ELSE Outcome(Ok, [b EXCEPT !.disp_coords = Some(got.dta)], got.used)

(* parse_depot_section: validate_spec, then one identifier a line up to    *)
(* the first line that starts with -1; the whole trimmed line is parsed as *)
(* a number.  The identifiers are kept in a set.                           *)
\* A faulty variant: each identifier replaces the ones before it.
RECURSIVE ReadDepotsLastOnly(_, _, _)
ReadDepotsLastOnly(ls, i, dta) ==
    IF i >= Len(ls) THEN [ok |-> FALSE, dta |-> dta, used |-> i]
    ELSE LET l == ls[i + 1]
         IN  IF IsSentinel(l) THEN [ok |-> TRUE, dta |-> dta, used |-> i + 1]
             ELSE IF ~IsData(l) \/ Len(l.toks) # 1 \/ ~AllUsize(l.toks)
             THEN [ok |-> FALSE, dta |-> dta, used |-> i + 1]
             ELSE ReadDepotsLastOnly(ls, i + 1, {l.toks[1]})

RECURSIVE ReadDepots(_, _, _)
ReadDepots(ls, i, dta) ==
    IF i >= Len(ls) THEN [ok |-> FALSE, dta |-> dta, used |-> i]
    ELSE LET l == ls[i + 1]
         IN  IF IsSentinel(l) THEN [ok |-> TRUE, dta |-> dta, used |-> i + 1]
             ELSE IF ~IsData(l) \/ Len(l.toks) # 1 \/ ~AllUsize(l.toks)
             THEN [ok |-> FALSE, dta |-> dta, used |-> i + 1]
             ELSE ReadDepots(ls, i + 1, dta \cup {l.toks[1]})

ParseDepotSection(b, ls) ==
    IF ValidateSpec(b) # Ok THEN Outcome(ValidateSpec(b), b, 0)
    ELSE LET got == ReadDepots(ls, 0, {})
         IN  IF ~got.ok THEN Outcome(Panic, b, got.used)
             ELSE Outcome(Ok, [b EXCEPT !.depots = Some(got.dta)], got.used)

(* The loop of parse_edge_data_section and parse_fixed_edges_section: up   *)
(* to the first line that starts with -1, a line with two tokens or more   *)
(* gives the pair of its first two, a shorter line gives none.             *)
RECURSIVE ReadPairs(_, _, _)
ReadPairs(ls, i, dta) ==
    IF i >= Len(ls) THEN [ok |-> FALSE, dta |-> dta, used |-> i]
    ELSE LET l == ls[i + 1]
         IN  IF IsSentinel(l) THEN [ok |-> TRUE, dta |-> dta, used |-> i + 1]
             ELSE IF ~IsData(l)
             THEN IF l.toks = <<>> /\ l.val = ""   \* a lone keyword: one token, no pair
                  THEN ReadPairs(ls, i + 1, dta)
                  ELSE [ok |-> FALSE, dta |-> dta, used |-> i + 1]
             ELSE IF Len(l.toks) < 2 THEN ReadPairs(ls, i + 1, dta)
             ELSE IF l.toks[1] < 0 \/ l.toks[2] < 0
             THEN [ok |-> FALSE, dta |-> dta, used |-> i + 1]
             ELSE ReadPairs(ls, i + 1, Append(dta, <<l.toks[1], l.toks[2]>>))

(* parse_edge_data_section: no validate_spec; edge_format.as_mut().unwrap()*)
(* panics on None, the ADJ_LIST arm is todo!().                            *)
ParseEdgeDataSection(b, ls) ==
    IF IsNone(b.edge_format) THEN Outcome(Panic, b, 0)
    ELSE IF Unwrap(b.edge_format)[1] = "AdjList" THEN Outcome(Panic, b, 0)
    ELSE IF Unwrap(b.edge_format)[1] = "Undefined"
    THEN Outcome(Err(InvalidEntry(K_EDGE_FORMAT)), b, 0)
    ELSE LET got == ReadPairs(ls, 0, <<>>)
         IN  IF ~got.ok THEN Outcome(Panic, b, got.used)
             ELSE Outcome(Ok,
                          [b EXCEPT !.edge_format =
                               Some(EdgeList(Unwrap(b.edge_format)[2] \o got.dta))],
                          got.used)

\* A faulty variant: the pairs go to the edge list as well.
ParseFixedEdgesIntoEdgeList(b, ls) ==
    LET got == ReadPairs(ls, 0, <<>>)
    IN  IF ~got.ok THEN Outcome(Panic, b, got.used)
        ELSE Outcome(Ok, [b EXCEPT !.fixed_edges = Some(got.dta),
                                   !.edge_format = Some(EdgeList(got.dta))],
                     got.used)

\* parse_fixed_edges_section: no validate_spec.
ParseFixedEdgesSection(b, ls) ==
    LET got == ReadPairs(ls, 0, <<>>)
    IN  IF ~got.ok THEN Outcome(Panic, b, got.used)
        ELSE Outcome(Ok, [b EXCEPT !.fixed_edges = Some(got.dta)], got.used)

----------------------------------------------------------------------------
(* The handlers of the specification lines of parse_it.  v is the value    *)
(* the splitter returns for the line.                                      *)

SetName(b, v) == Outcome(Ok, [b EXCEPT !.name = Some(v)], 0)

SetKind(b, v) ==
    IF TspKindTryFrom(v).tag = "Ok"
    THEN Outcome(Ok, [b EXCEPT !.kind = Some(TspKindTryFrom(v).val)], 0)
    ELSE Outcome(Err(TspKindTryFrom(v).err), b, 0)

SetComment(b, v) == Outcome(Ok, [b EXCEPT !.comment = Some(v)], 0)

SetDim(b, n) == Outcome(Ok, [b EXCEPT !.dim = Some(n)], 0)

SetCapacity(b, n) == Outcome(Ok, [b EXCEPT !.capacity = Some(n)], 0)

SetWeightKind(b, v) ==
    IF WeightKindTryFrom(v).tag = "Ok"
    THEN Outcome(Ok,
                 [b EXCEPT !.weight_kind = Some(WeightKindTryFrom(v).val),
                           !.coord_kind =
                               Some(CoordKindFromWeightKind(WeightKindTryFrom(v).val))],
                 0)
    ELSE Outcome(Err(WeightKindTryFrom(v).err), b, 0)

SetWeightFormat(b, v) ==
    IF WeightFormatTryFrom(v).tag = "Ok"
    THEN Outcome(Ok, [b EXCEPT !.weight_format = Some(WeightFormatTryFrom(v).val)], 0)
    ELSE Outcome(Err(WeightFormatTryFrom(v).err), b, 0)

SetEdgeFormat(b, v) ==
    IF EdgeFormatTryFrom(v).tag = "Ok"
    THEN Outcome(Ok, [b EXCEPT !.edge_format = Some(EdgeFormatTryFrom(v).val)], 0)
    ELSE Outcome(Err(EdgeFormatTryFrom(v).err), b, 0)

SetCoordKind(b, v) ==
    IF CoordKindTryFrom(v).tag = "Ok"
    THEN Outcome(Ok, [b EXCEPT !.coord_kind = Some(CoordKindTryFrom(v).val)], 0)
    ELSE Outcome(Err(CoordKindTryFrom(v).err), b, 0)

SetDispKind(b, v) ==
    IF DisplayKindTryFrom(v).tag = "Ok"
    THEN Outcome(Ok, [b EXCEPT !.disp_kind = Some(DisplayKindTryFrom(v).val)], 0)
    ELSE Outcome(Err(DisplayKindTryFrom(v).err), b, 0)

----------------------------------------------------------------------------
(* One iteration of the dispatch loop of parse_it.  The handler's outcome  *)
(* either leaves the loop running with the new builder, or ends the parse: *)
(* `?` returns the error, a panic unwinds.                                 *)

Handle(out) ==
    /\ pc = "scan"
    /\ IF out.res = Ok
       THEN /\ builder' = out.b
            /\ UNCHANGED <<pc, result, tsp>>
       ELSE /\ result' = out.res
            /\ pc' = "done"
            /\ UNCHANGED <<builder, tsp>>
    /\ UNCHANGED <<matrix, wtab, file, consumed>>

\* A handler that pulls lines from the iterator: ls is what it pulled.
HandleSection(out, ls) == out.used = Len(ls) /\ Handle(out)

LineName(v) == Handle(SetName(builder, v))
LineType(v) == Handle(SetKind(builder, v))
LineComment(v) == Handle(SetComment(builder, v))
LineDimension(n) == Handle(SetDim(builder, n))
LineCapacity(n) == Handle(SetCapacity(builder, n))
LineWeightType(v) == Handle(SetWeightKind(builder, v))
LineWeightFormat(v) == Handle(SetWeightFormat(builder, v))
LineEdgeFormat(v) == Handle(SetEdgeFormat(builder, v))
LineNodeCoordType(v) == Handle(SetCoordKind(builder, v))
LineDispType(v) == Handle(SetDispKind(builder, v))

NodeCoordSection(ls) == HandleSection(ParseNodeCoordSection(builder, ls), ls)
TourSection(ls) == HandleSection(ParseTourSection(builder, ls), ls)
EdgeWeightSection(ls) == HandleSection(ParseEdgeWeightSection(builder, ls), ls)

\* A blank line: `continue`.
LineBlank == pc = "scan" /\ UNCHANGED vars

\* Any other non-empty line: Err(InvalidEntry(line)).
LineInvalid(line) == Handle(Outcome(Err(InvalidEntry(line)), builder, 0))

(* A line starting with EOF (`break`) or the end of the input (itr.next()  *)
(* is None): the loop ends and parse_it returns builder.build().           *)
LineEOF ==
    /\ pc = "scan"
    /\ Build(builder)
    /\ UNCHANGED <<builder, matrix, wtab, file, consumed>>

EndOfInput ==
    /\ pc = "scan"
    /\ Build(builder)
    /\ UNCHANGED <<builder, matrix, wtab, file, consumed>>

(* The caller queries the instance of a successful parse: weight(a, b)     *)
(* for all a, b in ids.                                                    *)
QueryWeights(ids) ==
    /\ pc = "done"
    /\ result = Ok
    /\ wtab' = [a \in ids |-> [c \in ids |-> Weight(Unwrap(tsp), a, c)]]
    /\ pc' = "queried"
    /\ UNCHANGED <<builder, result, tsp, matrix, file, consumed>>

----------------------------------------------------------------------------
(* The inputs of the weight model: a logical n-by-n matrix M (M[a][b],     *)
(* 0-indexed) and its TSPLIB encoding in a storage format, as the tests    *)
(* test_weight_upper and test_weight_lower write it.                       *)

RECURSIVE Flatten(_)
Flatten(ss) == IF ss = <<>> THEN <<>> ELSE Head(ss) \o Flatten(Tail(ss))

\* The cells <<i, lo>> .. <<i, hi>> of row i, and <<lo, j>> .. <<hi, j>> of column j.
RowCells(i, lo, hi) == [k \in 1..(hi - lo + 1) |-> <<i, lo + k - 1>>]
ColCells(j, lo, hi) == [k \in 1..(hi - lo + 1) |-> <<lo + k - 1, j>>]

\* The order in which a format lists the cells of the matrix.
CellOrder(fmt, n) ==
    Flatten([r \in 1..n |->
        CASE fmt = "FullMatrix" -> RowCells(r - 1, 0, n - 1)
          [] fmt = "UpperRow" -> RowCells(r - 1, r, n - 1)
          [] fmt = "LowerRow" -> RowCells(r - 1, 0, r - 2)
          [] fmt = "UpperDiagRow" -> RowCells(r - 1, r - 1, n - 1)
          [] fmt = "LowerDiagRow" -> RowCells(r - 1, 0, r - 1)
          [] fmt = "UpperCol" -> ColCells(r - 1, 0, r - 2)
          [] fmt = "LowerCol" -> ColCells(r - 1, r, n - 1)
          [] fmt = "UpperDiagCol" -> ColCells(r - 1, 0, r - 1)
          [] fmt = "LowerDiagCol" -> ColCells(r - 1, r - 1, n - 1)
          [] OTHER -> <<>>])

Encode(fmt, M, n) ==
    [k \in 1..Len(CellOrder(fmt, n)) |->
        M[CellOrder(fmt, n)[k][1]][CellOrder(fmt, n)[k][2]]]

\* The token stream cut into lines of k tokens.
Chunk(toks, k) ==
    [i \in 1..((Len(toks) + k - 1) \div k) |->
        DataLine(SubSeq(toks, (i - 1) * k + 1, Min2(i * k, Len(toks))))]

TriangularFormats ==
    {"UpperRow", "LowerCol", "LowerRow", "UpperCol",
     "UpperDiagRow", "LowerDiagCol", "LowerDiagRow", "UpperDiagCol"}
NoDiagFormats == {"UpperRow", "LowerCol", "LowerRow", "UpperCol"}
DiagFormats == TriangularFormats \ NoDiagFormats
StorageFormats == TriangularFormats \cup {"FullMatrix", "Function"}

\* The symmetric n-by-n matrices over vals, each from its upper triangle.
UpperCellSet(n) == {c \in (0..(n - 1)) \X (0..(n - 1)) : c[1] <= c[2]}
SymMatrices(n, vals) ==
    {[a \in 0..(n - 1) |-> [b \in 0..(n - 1) |-> f[<<Min2(a, b), Max2(a, b)>>]]] :
        f \in [UpperCellSet(n) -> vals]}
AllMatrices(n, vals) == [0..(n - 1) -> [0..(n - 1) -> vals]]

\* The matrix whose cells are all different: cell (a, b) holds a*n + b + 1.
TagMatrix(n) == [a \in 0..(n - 1) |-> [b \in 0..(n - 1) |-> a * n + b + 1]]

\* The dimension-5 matrix of the tests: UPPER_ROW tokens 1..10, zero diagonal.
TestDim == 5
TestRows ==
    << <<0, 1, 2, 3, 4>>, <<1, 0, 5, 6, 7>>, <<2, 5, 0, 8, 9>>,
       <<3, 6, 8, 0, 10>>, <<4, 7, 9, 10, 0>> >>
TestMatrix == [a \in 0..(TestDim - 1) |-> [b \in 0..(TestDim - 1) |-> TestRows[a + 1][b + 1]]]

\* The builder after NAME, TYPE: TSP, DIMENSION: n, EDGE_WEIGHT_TYPE: EXPLICIT
\* and EDGE_WEIGHT_FORMAT: fmt were read (prep_weight! of the tests).
WeightBuilder(n, fmt) ==
    [NewBuilder EXCEPT !.name = Some("test"), !.kind = Some("Tsp"),
                       !.comment = Some("Test"), !.dim = Some(n),
                       !.weight_kind = Some("Explicit"),
                       !.coord_kind = Some("Undefined"),
                       !.weight_format = Some(fmt)]

\* The (dimension, matrix, format) inputs of the weight model.
WeightInputs ==
    UNION {{<<n, M, fmt>> : M \in SymMatrices(n, WeightVals),
                            fmt \in TriangularFormats \cup {"Function"}} :
              n \in 0..MaxDim}
    \cup UNION {{<<n, M, "FullMatrix">> : M \in AllMatrices(n, WeightVals)} :
                    n \in 0..MaxFullDim}
    \cup {<<n, TagMatrix(n), "FullMatrix">> : n \in 1..TestDim}
    \cup {<<TestDim, TestMatrix, fmt>> : fmt \in StorageFormats}

InitWeight ==
    /\ \E inp \in WeightInputs :
          /\ builder = WeightBuilder(inp[1], inp[3])
          /\ matrix = inp[2]
    /\ pc = "scan"
    /\ result = Pending
    /\ tsp = None
    /\ wtab = <<>>
    /\ file = <<>>
    /\ consumed = 0

\* The lines of the EDGE_WEIGHT_SECTION: the encoding of matrix, k tokens a line.
EncodedSection ==
    /\ IsNone(builder.edge_weights)
    /\ \E k \in 1..MaxPerLine :
          EdgeWeightSection(Chunk(Encode(Unwrap(builder.weight_format), matrix,
                                         Unwrap(builder.dim)), k))

QueryInRange == QueryWeights(0..(Unwrap(tsp).dim - 1))

NextWeight ==
    \/ EncodedSection
    \/ EndOfInput
    \/ QueryInRange

SpecWeight == InitWeight /\ [][NextWeight]_vars

----------------------------------------------------------------------------
(* The dispatch model (Spec): parse_it fed any sequence of lines over the  *)
(* alphabets below.  Specification lines are well formed (a colon, and a   *)
(* number where one is parsed); a TYPE value may be an unknown token.      *)

Names == {"test"}
KindTokens == {"TSP", "ATSP", "SOP", "HCP", "CVRP", "TOUR", "XYZ"}
DimVals == 1..MaxSpecDim
CapVals == {1}
WeightKindTokens == {"EXPLICIT", "MAN_2D", "SPECIAL"}
WeightFormatTokens == {"FUNCTION", "UPPER_ROW"}
EdgeFormatTokens == {"EDGE_LIST"}
CoordKindTokens == {"TWOD_COORDS"}
\* The x coordinate the node lines give node id.
NodeX(id) == 3 * id

\* All sequences over S of length at most n.
SeqsUpTo(S, n) == UNION {[1..k -> S] : k \in 0..n}

\* Lines a NODE_COORD_SECTION may pull: `id x y`, or a keyword line.
NodeLineSet ==
    {DataLine(<<id, NodeX(id), 0>>) : id \in 1..MaxSpecDim} \cup {KeyLine("EOF")}
\* Lines an EDGE_WEIGHT_SECTION may pull: one to MaxPerLine tokens.
WeightLineSet == {DataLine([i \in 1..k |-> 7]) : k \in 1..MaxPerLine}
\* Lines a TOUR_SECTION may pull: an identifier, the terminator, a keyword.
TourLineSet == {DataLine(<<1>>), DataLine(<<-1>>), KeyLine("EOF")}

Init ==
    /\ builder = NewBuilder
    /\ pc = "scan"
    /\ result = Pending
    /\ tsp = None
    /\ matrix = <<>>
    /\ wtab = <<>>
    /\ file = <<>>
    /\ consumed = 0

QueryAll == QueryWeights(0..MaxId)

Next ==
    \/ \E v \in Names : LineName(v)
    \/ \E v \in KindTokens : LineType(v)
    \/ \E n \in DimVals : LineDimension(n)
    \/ \E n \in CapVals : LineCapacity(n)
    \/ \E v \in WeightKindTokens : LineWeightType(v)
    \/ \E v \in WeightFormatTokens : LineWeightFormat(v)
    \/ \E v \in EdgeFormatTokens : LineEdgeFormat(v)
    \/ \E v \in CoordKindTokens : LineNodeCoordType(v)
    \/ \E ls \in SeqsUpTo(NodeLineSet, MaxSpecDim) : NodeCoordSection(ls)
    \/ \E ls \in SeqsUpTo(WeightLineSet, MaxSpecDim) : EdgeWeightSection(ls)
    \/ \E ls \in SeqsUpTo(TourLineSet, MaxTourLines) : TourSection(ls)
    \/ LineBlank
    \/ LineInvalid("FOO")
    \/ LineEOF
    \/ EndOfInput
    \/ QueryAll

Spec == Init /\ [][Next]_vars

----------------------------------------------------------------------------
(* The file model (SpecFile): parse_it fed a fixed text.  file holds the   *)
(* trimmed lines of the text, consumed counts the lines the iterator has   *)
(* yielded, to the dispatch loop or to a section parser.  A line is the    *)
(* keyword it starts with and its value, or the numbers of a data line.    *)

\* `KEY: value`
SpecLine(kw, v) == [kw |-> kw, toks |-> <<>>, val |-> v]
NumLine(kw, n) == [kw |-> kw, toks |-> <<n>>, val |-> ""]
BlankLine == DataLine(<<>>)
EOFLine == KeyLine("EOF")

K_COMMENT == "COMMENT"
K_DEMAND_SEC == "DEMAND_SECTION"
K_DISPLAY_SEC == "DISPLAY_DATA_SECTION"
K_DEPOT_SEC == "DEPOT_SECTION"
K_EDGE_DATA_SEC == "EDGE_DATA_SECTION"
K_FIXED_EDGES_SEC == "FIXED_EDGES_SECTION"
\* The keywords the dispatch loop tests for, in its order.
DispatchKeys ==
    <<"EOF", K_NAME, K_TYPE, K_COMMENT, K_DIM, K_CAP, K_WEIGHT_TYPE,
      K_WEIGHT_FORMAT, K_EDGE_FORMAT, K_NODE_COORD_TYPE, K_DISP_TYPE,
      K_NODE_COORD_SEC, K_DEPOT_SEC, K_DEMAND_SEC, K_EDGE_DATA_SEC,
      K_FIXED_EDGES_SEC, K_DISPLAY_SEC, K_TOUR_SEC, K_EDGE_WEIGHT_SEC>>
DispatchKeySet == {DispatchKeys[k] : k \in DOMAIN DispatchKeys}

\* TEST_STR, coordinates cut to their integer part.
TestText ==
    <<BlankLine,
      SpecLine(K_NAME, "test"), SpecLine(K_TYPE, "TSP"),
      SpecLine(K_COMMENT, "Test"), NumLine(K_DIM, 3),
      SpecLine(K_WEIGHT_TYPE, "GEO"), SpecLine(K_DISP_TYPE, "COORD_DISPLAY"),
      KeyLine(K_NODE_COORD_SEC),
      DataLine(<<1, 38, 20>>), DataLine(<<2, 39, 26>>), DataLine(<<3, 40, 25>>),
      EOFLine>>

\* The two texts of test_tour.
TourText1 ==
    <<BlankLine,
      SpecLine(K_NAME, "test"), SpecLine(K_COMMENT, "test"),
      SpecLine(K_TYPE, "TOUR"), NumLine(K_DIM, 4),
      KeyLine(K_TOUR_SEC), DataLine(<<4, 3, 2, 1>>), DataLine(<<-1>>),
      EOFLine, BlankLine>>

TourText2 ==
    <<BlankLine,
      SpecLine(K_NAME, "test"), SpecLine(K_COMMENT, "test"),
      SpecLine(K_TYPE, "TOUR"), NumLine(K_DIM, 4),
      KeyLine(K_TOUR_SEC),
      DataLine(<<1>>), DataLine(<<2>>), DataLine(<<3>>), DataLine(<<4>>),
      DataLine(<<-1>>), DataLine(<<4, 3, 2, 1>>), DataLine(<<-1>>),
      DataLine(<<-1>>), EOFLine, BlankLine>>

\* prep_weight!("UPPER_ROW", "1 2 3 4 5 6 7 8 9 10")
WeightText ==
    <<BlankLine,
      SpecLine(K_NAME, "test"), SpecLine(K_TYPE, "TSP"),
      SpecLine(K_COMMENT, "Test"), NumLine(K_DIM, TestDim),
      SpecLine(K_WEIGHT_TYPE, "EXPLICIT"), SpecLine(K_WEIGHT_FORMAT, "UPPER_ROW"),
      KeyLine(K_EDGE_WEIGHT_SEC), DataLine(<<1, 2, 3, 4, 5, 6, 7, 8, 9, 10>>),
      BlankLine>>

\* A CVRP text in the layout of tests/data/eil22.vrp, two nodes.
CvrpText ==
    <<SpecLine(K_NAME, "eil"), SpecLine(K_TYPE, "CVRP"),
      NumLine(K_DIM, 2), SpecLine(K_WEIGHT_TYPE, "MAN_2D"),
      NumLine(K_CAP, 6),
      KeyLine(K_NODE_COORD_SEC), DataLine(<<1, 3, 0>>), DataLine(<<2, 6, 0>>),
      KeyLine(K_DEMAND_SEC), DataLine(<<1, 0>>), DataLine(<<2, 9>>),
      KeyLine(K_DISPLAY_SEC), DataLine(<<1, 3, 0>>), DataLine(<<2, 6, 0>>),
      KeyLine(K_DEPOT_SEC), DataLine(<<1>>), DataLine(<<-1>>),
      EOFLine>>

\* An HCP text with its edges and one fixed edge.
HcpText ==
    <<SpecLine(K_NAME, "hc"), SpecLine(K_TYPE, "HCP"), NumLine(K_DIM, 2),
      SpecLine(K_EDGE_FORMAT, "EDGE_LIST"),
      KeyLine(K_EDGE_DATA_SEC), DataLine(<<1, 2>>), DataLine(<<2, 1>>),
      DataLine(<<-1>>),
      KeyLine(K_FIXED_EDGES_SEC), DataLine(<<1, 2>>), DataLine(<<-1>>),
      EOFLine>>

BaseTexts == {TestText, TourText1, TourText2, WeightText, CvrpText, HcpText}

\* The lines an edited text may hold in addition.
ExtraLines ==
    {SpecLine(K_NAME, "other"), SpecLine(K_TYPE, "ATSP"), SpecLine(K_TYPE, "XYZ"),
     SpecLine(K_COMMENT, "more"), NumLine(K_DIM, 1), NumLine(K_CAP, 5),
     SpecLine(K_DIM, "XYZ"),
     SpecLine(K_WEIGHT_TYPE, "MAX_3D"), SpecLine(K_WEIGHT_TYPE, "XYZ"),
     SpecLine(K_WEIGHT_FORMAT, "FUNCTION"), SpecLine(K_WEIGHT_FORMAT, "XYZ"),
     SpecLine(K_WEIGHT_FORMAT, "FULL_MATRIX"),
     SpecLine(K_EDGE_FORMAT, "EDGE_LIST"), SpecLine(K_EDGE_FORMAT, "XYZ"),
     SpecLine(K_NODE_COORD_TYPE, "TWOD_COORDS"),
     SpecLine(K_NODE_COORD_TYPE, "THREED_COORDS"),
     SpecLine(K_NODE_COORD_TYPE, "NO_COORDS"), SpecLine(K_NODE_COORD_TYPE, "XYZ"),
     SpecLine(K_DISP_TYPE, "NO_DISPLAY"), SpecLine(K_DISP_TYPE, "XYZ"),
     KeyLine(K_NODE_COORD_SEC), KeyLine(K_DEMAND_SEC), KeyLine(K_DISPLAY_SEC),
     KeyLine(K_TOUR_SEC), KeyLine(K_EDGE_WEIGHT_SEC),
     KeyLine(K_DEPOT_SEC), KeyLine(K_EDGE_DATA_SEC), KeyLine(K_FIXED_EDGES_SEC),
     SpecLine(K_EDGE_FORMAT, "ADJ_LIST"), NumLine(K_DIM, 0),
     EOFLine, KeyLine("FOO"), BlankLine, DataLine(<<-1>>), DataLine(<<7>>),
     DataLine(<<1>>)}

\* The text f without its line i; with line l put after its first j lines.
DropLine(f, i) == SubSeq(f, 1, i - 1) \o SubSeq(f, i + 1, Len(f))
InsertLine(f, j, l) == SubSeq(f, 1, j) \o <<l>> \o SubSeq(f, j + 1, Len(f))

\* Every text one edit away from f: a line dropped, moved or added, or the
\* text cut short after any of its lines.
Edits(f) ==
    {DropLine(f, i) : i \in 1..Len(f)}
        \cup {SubSeq(f, 1, i) : i \in 1..Len(f)}
        \cup {InsertLine(DropLine(f, i), j, f[i]) : i \in 1..Len(f), j \in 0..(Len(f) - 1)}
        \cup {InsertLine(f, j, l) : j \in 0..Len(f), l \in ExtraLines}

Files == BaseTexts \cup UNION {Edits(f) : f \in BaseTexts}

InitFile ==
    /\ file \in Files
    /\ consumed = 0
    /\ builder = NewBuilder
    /\ pc = "scan"
    /\ result = Pending
    /\ tsp = None
    /\ matrix = <<>>
    /\ wtab = <<>>

\* The line the iterator yields next, and the lines after it.
FileLine == file[consumed + 1]
FileRest == SubSeq(file, consumed + 2, Len(file))
\* The dispatch loop is handed a line that starts with the keyword kw.
AtKey(kw) == pc = "scan" /\ consumed < Len(file) /\ FileLine.kw = kw
\* The value the splitter returns for the line.
FileValue == FileLine.val
\* splitter(&line).parse::<usize>().unwrap() on the line.
FileUsize(set) ==
    IF FileLine.toks = <<>> \/ FileLine.toks[1] < 0
    THEN Outcome(Panic, builder, 0)
    ELSE set

(* One iteration of the dispatch loop on the text: the line, and the       *)
(* out.used lines its handler pulled.                                      *)
FileHandle(out) ==
    /\ consumed' = consumed + 1 + out.used
    /\ IF out.res = Ok
       THEN /\ builder' = out.b
            /\ UNCHANGED <<pc, result, tsp>>
       ELSE /\ result' = out.res
            /\ pc' = "done"
            /\ UNCHANGED <<builder, tsp>>
    /\ UNCHANGED <<matrix, wtab, file>>

ReadBlank ==
    /\ pc = "scan" /\ consumed < Len(file) /\ IsBlank(FileLine)
    /\ consumed' = consumed + 1
    /\ UNCHANGED <<builder, pc, result, tsp, matrix, wtab, file>>

ReadEOF ==
    /\ AtKey("EOF")
    /\ Build(builder)
    /\ consumed' = consumed + 1
    /\ UNCHANGED <<builder, matrix, wtab, file>>

ReadName == AtKey(K_NAME) /\ FileHandle(SetName(builder, FileValue))
ReadType == AtKey(K_TYPE) /\ FileHandle(SetKind(builder, FileValue))
ReadComment == AtKey(K_COMMENT) /\ FileHandle(SetComment(builder, FileValue))
ReadDimension ==
    AtKey(K_DIM) /\ FileHandle(FileUsize(SetDim(builder, FileLine.toks[1])))
ReadCapacity ==
    AtKey(K_CAP) /\ FileHandle(FileUsize(SetCapacity(builder, FileLine.toks[1])))
ReadWeightType == AtKey(K_WEIGHT_TYPE) /\ FileHandle(SetWeightKind(builder, FileValue))
ReadWeightFormat ==
    AtKey(K_WEIGHT_FORMAT) /\ FileHandle(SetWeightFormat(builder, FileValue))
ReadEdgeFormat == AtKey(K_EDGE_FORMAT) /\ FileHandle(SetEdgeFormat(builder, FileValue))
ReadNodeCoordType ==
    AtKey(K_NODE_COORD_TYPE) /\ FileHandle(SetCoordKind(builder, FileValue))
ReadDispType == AtKey(K_DISP_TYPE) /\ FileHandle(SetDispKind(builder, FileValue))

ReadNodeCoordSection ==
    AtKey(K_NODE_COORD_SEC) /\ FileHandle(ParseNodeCoordSection(builder, FileRest))
ReadDemandSection ==
    AtKey(K_DEMAND_SEC) /\ FileHandle(ParseDemandSection(builder, FileRest))
ReadDepotSection ==
    AtKey(K_DEPOT_SEC) /\ FileHandle(ParseDepotSection(builder, FileRest))
ReadEdgeDataSection ==
    AtKey(K_EDGE_DATA_SEC) /\ FileHandle(ParseEdgeDataSection(builder, FileRest))
ReadFixedEdgesSection ==
    AtKey(K_FIXED_EDGES_SEC) /\ FileHandle(ParseFixedEdgesSection(builder, FileRest))
ReadDisplayDataSection ==
    AtKey(K_DISPLAY_SEC) /\ FileHandle(ParseDisplayDataSection(builder, FileRest))
ReadTourSection ==
    AtKey(K_TOUR_SEC) /\ FileHandle(ParseTourSection(builder, FileRest))
ReadEdgeWeightSection ==
    AtKey(K_EDGE_WEIGHT_SEC) /\ FileHandle(ParseEdgeWeightSection(builder, FileRest))

\* A non-empty line that starts with none of the keywords.
ReadInvalid ==
    /\ pc = "scan" /\ consumed < Len(file)
    /\ ~IsBlank(FileLine)
    /\ FileLine.kw \notin DispatchKeySet
    /\ FileHandle(Outcome(Err(InvalidEntry(FileLine)), builder, 0))

\* itr.next() is None: the loop ends and parse_it returns builder.build().
EndOfFile ==
    /\ pc = "scan" /\ consumed = Len(file)
    /\ Build(builder)
    /\ UNCHANGED <<builder, matrix, wtab, file, consumed>>

NextFile ==
    \/ ReadBlank
    \/ ReadEOF
    \/ ReadName
    \/ ReadType
    \/ ReadComment
    \/ ReadDimension
    \/ ReadCapacity
    \/ ReadWeightType
    \/ ReadWeightFormat
    \/ ReadEdgeFormat
    \/ ReadNodeCoordType
    \/ ReadDispType
    \/ ReadNodeCoordSection
    \/ ReadDepotSection
    \/ ReadDemandSection
    \/ ReadEdgeDataSection
    \/ ReadFixedEdgesSection
    \/ ReadDisplayDataSection
    \/ ReadTourSection
    \/ ReadEdgeWeightSection
    \/ ReadInvalid
    \/ EndOfFile

SpecFile == InitFile /\ [][NextFile]_vars

----------------------------------------------------------------------------
(* The text of one line.  A line is a sequence of atoms: a keyword in      *)
(* capitals, written out in full, or one character.  No keyword of the     *)
(* dispatch chain is the beginning of another and no character sequence    *)
(* of the alphabet spells one, so a line starts with a keyword exactly     *)
(* when the keyword is its first atom.                                     *)

MaxAtoms == 5
KeyAtoms == {K_NAME, K_COMMENT, K_TYPE, "EOF"}
\* A token of TspKind.
ValueAtoms == {"TSP"}
\* "n" is a lower-case letter, "X" a capital, then the colon and the blank.
CharAtoms == {"n", "X", ":", " "}
Atoms == KeyAtoms \cup ValueAtoms \cup CharAtoms
TextLines == SeqsUpTo(Atoms, MaxAtoms)

\* str::trim
RECURSIVE TrimStart(_)
TrimStart(t) ==
    IF t # <<>> /\ t[1] = " " THEN TrimStart(Tail(t)) ELSE t
RECURSIVE TrimEnd(_)
TrimEnd(t) ==
    IF t # <<>> /\ t[Len(t)] = " " THEN TrimEnd(SubSeq(t, 1, Len(t) - 1)) ELSE t
Trim(t) == TrimEnd(TrimStart(t))

\* str::starts_with, for a keyword
StartsWith(t, kw) == t # <<>> /\ t[1] = kw

\* The place of the first colon of t after place from, or Len(t) + 1.
ColonAfter(t, from) ==
    LET at == {k \in (from + 1)..Len(t) : t[k] = ":"}
    IN  IF at = {} THEN Len(t) + 1 ELSE CHOOSE k \in at : \A j \in at : k <= j

\* s.split(':').collect(): fewer than two pieces when s holds no colon.
HasColon(t) == ColonAfter(t, 0) <= Len(t)
\* val[1].trim(): the piece between the first colon and the second.
Splitter(t) ==
    Trim(SubSeq(t, ColonAfter(t, 0) + 1, ColonAfter(t, ColonAfter(t, 0)) - 1))

\* The line of the text model, trimmed as the loop trims it.
TextLine == Trim(file[consumed + 1])
AtText(kw) ==
    /\ pc = "scan" /\ consumed < Len(file)
    /\ TextLine # <<>>
    /\ StartsWith(TextLine, kw)
\* splitter(&line), then the handler: val[1] is out of range without colon.
Split(out) == IF HasColon(TextLine) THEN out ELSE Outcome(Panic, builder, 0)

\* A value of one atom is the token the atom spells; a longer one spells
\* no keyword of TspKind.
TextKind(b, v) ==
    IF Len(v) = 1 /\ TspKindTryFrom(v[1]).tag = "Ok" THEN SetKind(b, v[1])
    ELSE Outcome(Err(InvalidInput(K_TYPE, v)), b, 0)

InitText ==
    /\ file \in {<<t>> : t \in TextLines}
    /\ consumed = 0
    /\ builder = NewBuilder
    /\ pc = "scan"
    /\ result = Pending
    /\ tsp = None
    /\ matrix = <<>>
    /\ wtab = <<>>

TextBlank ==
    /\ pc = "scan" /\ consumed < Len(file) /\ TextLine = <<>>
    /\ consumed' = consumed + 1
    /\ UNCHANGED <<builder, pc, result, tsp, matrix, wtab, file>>

TextEOF ==
    /\ AtText("EOF")
    /\ Build(builder)
    /\ consumed' = consumed + 1
    /\ UNCHANGED <<builder, matrix, wtab, file>>

TextName == AtText(K_NAME) /\ FileHandle(Split(SetName(builder, Splitter(TextLine))))
TextType == AtText(K_TYPE) /\ FileHandle(Split(TextKind(builder, Splitter(TextLine))))
TextComment ==
    AtText(K_COMMENT) /\ FileHandle(Split(SetComment(builder, Splitter(TextLine))))

TextInvalid ==
    /\ pc = "scan" /\ consumed < Len(file)
    /\ TextLine # <<>>
    /\ TextLine[1] \notin KeyAtoms
    /\ FileHandle(Outcome(Err(InvalidEntry(TextLine)), builder, 0))

NextText ==
    \/ TextBlank
    \/ TextEOF
    \/ TextName
    \/ TextType
    \/ TextComment
    \/ TextInvalid
    \/ EndOfFile

SpecText == InitText /\ [][NextText]_vars

----------------------------------------------------------------------------
(* Properties of the weight model (SpecWeight).                            *)

\* The format and dimension the weight model's input declares.
InFormat == Unwrap(builder.weight_format)
InDim == Unwrap(builder.dim)
InRangeIds == 0..(InDim - 1)
\* The token stream of the encoded section.
InTokens == Encode(InFormat, matrix, InDim)
\* The inputs on which parse_edge_weight_section panics: a format with
\* diagonal at dimension 2 (the needed first token is removed) and a format
\* without diagonal at dimension 0 (dim - 1 overflows).
SectionFails ==
    \/ InFormat \in DiagFormats /\ InDim = 2
    \/ InFormat \in NoDiagFormats /\ InDim = 0
IsSymmetric(M, n) == \A a, b \in 0..(n - 1) : M[a][b] = M[b][a]

(* C1: for every dimension, every symmetric matrix M and each of the eight *)
(* triangular formats, parsing the encoding of M succeeds and weight(a, b) *)
(* then returns M[a][b] for every pair a # b in range, every index it      *)
(* computes lying inside the stored rows.                                  *)
C1_WeightReproducesMatrix ==
    InFormat \in TriangularFormats =>
        /\ pc = "done" => result # Panic
        /\ pc = "queried" =>
              \A a, b \in InRangeIds :
                  a # b => wtab[a][b] = W(matrix[a][b])

\* C1 outside the failing case: what holds of the code as it is.
C1_ExceptDiagDim2 ==
    (InFormat \in TriangularFormats /\ ~SectionFails) =>
        /\ pc = "done" => result # Panic
        /\ pc = "queried" =>
              \A a, b \in InRangeIds :
                  a # b => wtab[a][b] = W(matrix[a][b])

\* The shape of the stored rows by the table of the formats: row lengths, in order.
TableRowLens(fmt, n) ==
    CASE fmt = "FullMatrix" -> [r \in 1..n |-> n]
      [] fmt \in {"UpperRow", "LowerCol"} -> [r \in 1..(n - 1) |-> n - r]
      [] fmt \in {"LowerRow", "UpperCol"} -> [r \in 1..(n - 1) |-> r]
      [] fmt \in {"UpperDiagRow", "LowerDiagCol"} -> [r \in 1..n |-> n + 1 - r]
      [] fmt \in {"LowerDiagRow", "UpperDiagCol"} -> [r \in 1..n |-> r]
      [] OTHER -> <<>>

RECURSIVE SumTo(_, _)
SumTo(lens, r) == IF r = 0 THEN 0 ELSE lens[r] + SumTo(lens, r - 1)

\* Consecutive slices of toks with the lengths lens.
SlicesOf(toks, lens) ==
    [r \in 1..Len(lens) |->
        SubSeq(toks, SumTo(lens, r - 1) + 1, SumTo(lens, r))]

(* C2: once EDGE_WEIGHT_SECTION is parsed from exactly the required number *)
(* of tokens, the stored rows are the consecutive slices of the token      *)
(* stream with the lengths the table gives for the format, for every       *)
(* dimension n >= 1 (n = 2 included); the section never fails.             *)
C2_RowsAreSlices ==
    /\ pc = "done" => result # Panic
    /\ IsSome(builder.edge_weights) =>
          Unwrap(builder.edge_weights) = SlicesOf(InTokens, TableRowLens(InFormat, InDim))

\* C2 outside the failing case.
C2_ExceptDiagDim2 ==
    ~SectionFails =>
        /\ pc = "done" => result # Panic
        /\ IsSome(builder.edge_weights) =>
              /\ Len(InTokens) = SumTo(TableRowLens(InFormat, InDim),
                                       Len(TableRowLens(InFormat, InDim)))
              /\ Unwrap(builder.edge_weights) =
                    SlicesOf(InTokens, TableRowLens(InFormat, InDim))

(* C3: for each of the eight triangular formats and every pair a, b in     *)
(* range of an explicit-weight instance, weight(a, b) and weight(b, a)     *)
(* return the same value.                                                  *)
C3_WeightSymmetric ==
    (pc = "queried" /\ InFormat \in TriangularFormats) =>
        \A a, b \in InRangeIds : wtab[a][b].ok /\ wtab[a][b] = wtab[b][a]

C3_Witness ==
    /\ pc = "queried"
    /\ InFormat = "LowerRow"
    /\ InDim = 3
    /\ wtab[2][0] = W(7) /\ wtab[0][2] = W(7)
    /\ wtab[2][1] = W(0) /\ wtab[1][0] = W(0)

(* C4: for every a in range of an explicit-weight instance, weight(a, a)   *)
(* is 0 for the four formats without diagonal (a = 0 and a = n-1, which    *)
(* have no stored row, included) and is the stored diagonal token of node  *)
(* a for the four formats with diagonal.                                   *)
C4_DiagonalWeight ==
    pc = "queried" =>
        /\ InFormat \in NoDiagFormats =>
              \A a \in InRangeIds : wtab[a][a] = W(0)
        /\ InFormat \in DiagFormats =>
              \A a \in InRangeIds : wtab[a][a] = W(matrix[a][a])

C4_Witness ==
    /\ pc = "queried"
    /\ InFormat = "UpperDiagRow"
    /\ InDim = 3
    /\ matrix[0][0] = 7 /\ matrix[1][1] = 0 /\ matrix[2][2] = 7
    /\ wtab[0][0] = W(7) /\ wtab[1][1] = W(0) /\ wtab[2][2] = W(7)

\* The other case of C4: no diagonal is stored, and the first and last node have no row.
C4_WitnessNoDiag ==
    /\ pc = "queried"
    /\ InFormat = "UpperRow"
    /\ InDim = 3
    /\ matrix[0][0] = 7 /\ matrix[2][2] = 7
    /\ Len(Unwrap(tsp).edge_weights) = 2
    /\ wtab[0][0] = W(0) /\ wtab[2][2] = W(0)

\* weight(a, b) of the instance parsed from the UPPER_ROW encoding of matrix.
UpperRowInstance ==
    MakeTsp(ParseEdgeWeightSection(
                WeightBuilder(InDim, "UpperRow"),
                Chunk(Encode("UpperRow", matrix, InDim), MaxPerLine)).b)

(* C5 as stated: weight(a, b) does not depend on which of the ten storage  *)
(* formats a symmetric matrix was encoded in: each format, fed the         *)
(* equivalent encoding, gives the same weight as UPPER_ROW for every pair. *)
C5_AllTenFormatsAgree ==
    (pc = "queried" /\ IsSymmetric(matrix, InDim)) =>
        \A a, b \in InRangeIds : wtab[a][b] = Weight(UpperRowInstance, a, b)

(* C5 amended: for a symmetric matrix, an instance parsed from the         *)
(* encoding in FULL_MATRIX or a triangular format gives the same           *)
(* weight(a, b) as the UPPER_ROW instance for every pair a # b, and for    *)
(* a = b when the matrix holds 0 there; FUNCTION stores nothing and gives  *)
(* 0 for every pair.  For the dimension-5 matrix of the tests every        *)
(* format but FUNCTION gives weight(1,2)=5, weight(4,3)=10, weight(4,2)=9  *)
(* and weight(4,4)=0.  The parse fails exactly for the four formats with   *)
(* diagonal at dimension 2 and the four without at dimension 0, which give *)
(* no instance to query.                                                   *)
C5_StoredFormatsAgree ==
    /\ (pc = "queried" /\ IsSymmetric(matrix, InDim)) =>
        /\ InFormat # "Function" =>
              \A a, b \in InRangeIds :
                  (a # b \/ matrix[a][a] = 0) =>
                      wtab[a][b] = Weight(UpperRowInstance, a, b)
        /\ InFormat = "Function" =>
              \A a, b \in InRangeIds : wtab[a][b] = W(0)
        /\ (matrix = TestMatrix /\ InFormat # "Function") =>
              /\ wtab[1][2] = W(5) /\ wtab[4][3] = W(10)
              /\ wtab[4][2] = W(9) /\ wtab[4][4] = W(0)
    /\ (pc = "done" /\ IsSymmetric(matrix, InDim)) =>
          /\ result = Panic => SectionFails
          /\ SectionFails => result # Ok

C5_Witness ==
    /\ pc = "queried"
    /\ matrix = TestMatrix
    /\ InFormat = "LowerDiagCol"
    /\ wtab[1][2] = W(5) /\ wtab[3][4] = W(10) /\ wtab[2][4] = W(9)
    /\ Weight(UpperRowInstance, 2, 4) = W(9)

(* C6: for FULL_MATRIX with dimension n the section parses and             *)
(* weight(a, b) is the token at 0-based position a*n + b of the token      *)
(* stream for every a, b in range; weight(a, b) and weight(b, a) are the   *)
(* two independently stored values.                                        *)
C6_FullMatrixCell ==
    InFormat = "FullMatrix" =>
        /\ pc = "done" => result # Panic
        /\ pc = "queried" =>
              \A a, b \in InRangeIds :
                  wtab[a][b] = W(InTokens[a * InDim + b + 1])

C6_Witness ==
    /\ pc = "queried"
    /\ InFormat = "FullMatrix"
    /\ InDim = 2
    /\ InTokens = <<0, 7, 0, 7>>
    /\ wtab[0][1] = W(7) /\ wtab[1][0] = W(0)


(* C23: in an edge-weight section of dimension n the first collected token *)
(* is discarded exactly when n + 1 tokens were collected, and it is then a *)
(* redundant extra: a section that supplies exactly the number of tokens   *)
(* its format requires loses none of them, and the stored rows, read in    *)
(* order, are the section's tokens.                                        *)
C23_ExactInputLosesNoToken ==
    /\ Len(DropExtraToken(InTokens, InDim)) < Len(InTokens) <=>
          Len(InTokens) = InDim + 1
    /\ Len(InTokens) = TokenCount(InFormat, InDim) =>
          /\ DropExtraToken(InTokens, InDim) = InTokens
          /\ pc = "done" => result # Panic
          /\ IsSome(builder.edge_weights) =>
                Flatten(Unwrap(builder.edge_weights)) = InTokens

\* C23 outside the one case where n + 1 is the required count (and where
\* the section fails before it collects a token).
C23_ExceptRequiredIsDimPlusOne ==
    (TokenCount(InFormat, InDim) # InDim + 1 /\ ~SectionFails) =>
        /\ Len(InTokens) = TokenCount(InFormat, InDim)
        /\ DropExtraToken(InTokens, InDim) = InTokens
        /\ pc = "done" => result # Panic
        /\ IsSome(builder.edge_weights) =>
              Flatten(Unwrap(builder.edge_weights)) = InTokens

\* An exact section of a diagonal format at dimension 2 was read and failed.
C23_WitnessDropped ==
    /\ InFormat \in DiagFormats /\ InDim = 2
    /\ Len(InTokens) = InDim + 1
    /\ pc = "done" /\ result = Panic

\* An exact section of another shape was read and stored.
C23_WitnessKept ==
    /\ InFormat \in TriangularFormats /\ InDim = 3
    /\ IsSome(builder.edge_weights)


(* C30: for DIMENSION 0 and 1 the row count dim - 1 and the token counts   *)
(* of the edge-weight section stay within the unsigned range for every     *)
(* format (no underflow of dim - 1 at dim = 0), the section does not fail, *)
(* and it stores the number of rows the table gives for the dimension:     *)
(* zero rows for the formats without diagonal.                             *)
C30_SmallDimensionsStored ==
    InDim \in {0, 1} =>
        /\ ~DimMinusOneOverflows(InFormat, InDim)
        /\ TokenCount(InFormat, InDim) >= 0
        /\ pc = "done" => result # Panic
        /\ IsSome(builder.edge_weights) =>
              /\ Len(Unwrap(builder.edge_weights)) = Len(TableRowLens(InFormat, InDim))
              /\ InFormat \in NoDiagFormats => Unwrap(builder.edge_weights) = <<>>

\* C30 without the formats that compute dim - 1 at dimension 0.
C30_ExceptNoDiagonalAtZero ==
    (InDim \in {0, 1} /\ ~(InFormat \in NoDiagFormats /\ InDim = 0)) =>
        /\ ~DimMinusOneOverflows(InFormat, InDim)
        /\ TokenCount(InFormat, InDim) >= 0
        /\ pc = "done" => result # Panic
        /\ IsSome(builder.edge_weights) =>
              /\ Len(Unwrap(builder.edge_weights)) = Len(TableRowLens(InFormat, InDim))
              /\ InFormat \in NoDiagFormats => Unwrap(builder.edge_weights) = <<>>

\* The section of a format without diagonal at dimension 0 has failed.
C30_WitnessUnderflow ==
    /\ InDim = 0 /\ InFormat \in NoDiagFormats
    /\ pc = "done" /\ result = Panic
\* At dimension 1 such a section stores zero rows, and the build succeeds.
C30_WitnessZeroRows ==
    /\ InDim = 1 /\ InFormat \in NoDiagFormats
    /\ builder.edge_weights = Some(<<>>)
    /\ pc = "done" /\ result = Ok

----------------------------------------------------------------------------
(* Properties of the dispatch model (Spec).                                *)

QueryIds == 0..MaxId

(* C7: weight(a, b) returns 0 without failing, for any identifiers a and   *)
(* b, when the weight kind is Explicit with format FUNCTION or Undefined,  *)
(* when the weight kind is not Explicit and a or b is not a key of         *)
(* node_coords, and when the weight kind is Custom or Undefined.           *)
C7_WeightZeroCases ==
    pc = "queried" =>
        LET t == Unwrap(tsp)
        IN  /\ (t.weight_kind = "Explicit"
                    /\ t.weight_format \in {"Function", "Undefined"}) =>
                  \A a, b \in QueryIds : wtab[a][b] = W(0)
            /\ t.weight_kind # "Explicit" =>
                  \A a, b \in QueryIds :
                      (a \notin DOMAIN t.node_coords \/ b \notin DOMAIN t.node_coords)
                          => wtab[a][b] = W(0)
            /\ t.weight_kind \in {"Custom", "Undefined"} =>
                  \A a, b \in QueryIds : wtab[a][b] = W(0)
            /\ \A fmt \in {"Function", "Undefined"} :
                  \A a, b \in QueryIds :
                      Weight([t EXCEPT !.weight_kind = "Explicit",
                                       !.weight_format = fmt], a, b) = W(0)

\* A Custom instance with two nodes apart, next to a node without coordinates.
C7_Witness ==
    /\ pc = "queried"
    /\ Unwrap(tsp).weight_kind = "Custom"
    /\ DOMAIN Unwrap(tsp).node_coords = {1, 2}
    /\ Unwrap(tsp).node_coords[1].pos # Unwrap(tsp).node_coords[2].pos
    /\ wtab[1][2] = W(0)
    /\ wtab[0][1] = W(0)

\* The other cases of C7.
C7_WitnessFunction ==
    /\ pc = "queried"
    /\ Unwrap(tsp).weight_kind = "Explicit"
    /\ Unwrap(tsp).weight_format = "Function"
    /\ wtab[1][2] = W(0)

C7_WitnessMissingNode ==
    /\ pc = "queried"
    /\ Unwrap(tsp).weight_kind = "Man2d"
    /\ DOMAIN Unwrap(tsp).node_coords = {1, 2}
    /\ wtab[1][2] = W(NodeX(2) - NodeX(1))
    /\ wtab[0][2] = W(0)

C7_WitnessUndefinedKind ==
    /\ pc = "queried"
    /\ Unwrap(tsp).weight_kind = "Undefined"
    /\ DOMAIN Unwrap(tsp).node_coords = {1, 2}
    /\ wtab[1][2] = W(0)

\* The conditions under which the specification of a builder is complete.
SpecComplete(b) ==
    /\ IsSome(b.name)
    /\ IsSome(b.kind)
    /\ Unwrap(b.kind) \in {"Tsp", "Atsp", "Cvrp", "Sop"} => IsSome(b.weight_kind)
    /\ Unwrap(b.kind) = "Cvrp" => IsSome(b.capacity)
    /\ Unwrap(b.kind) = "Hcp" => IsSome(b.edge_format)
    /\ Unwrap(b.kind) # "Tour" => IsSome(b.dim)

C8_WitnessOk ==
    /\ pc = "done"
    /\ builder.kind = Some("Tour")
    /\ IsNone(builder.dim) /\ IsNone(builder.weight_kind)
    /\ result = Ok

\* A required line of a TSP input, or CAPACITY of a CVRP input, is missing.
RequiredLineMissing(b) ==
    \/ IsNone(b.name)
    \/ IsNone(b.kind)
    \/ b.kind = Some("Tsp") /\ (IsNone(b.dim) \/ IsNone(b.weight_kind))
    \/ b.kind = Some("Cvrp") /\ IsNone(b.capacity)

(* C9: an input that omits NAME, TYPE, or (TYPE being TSP) DIMENSION or    *)
(* EDGE_WEIGHT_TYPE, or (TYPE being CVRP) CAPACITY, makes parse return an  *)
(* error and no Instance, in whatever order its other lines stand and      *)
(* whether the end of the input or a section header finds the line missing.*)
C9_MissingLineFails ==
    (pc \in {"done", "queried"} /\ RequiredLineMissing(builder)) =>
        /\ result.tag = "Err"
        /\ tsp = None

\* DIMENSION alone is missing of a TSP input that has its coordinates' type.
C9_Witness ==
    /\ pc = "done"
    /\ builder.name = Some("test")
    /\ builder.kind = Some("Tsp")
    /\ builder.weight_kind = Some("Man2d")
    /\ builder.coord_kind = Some("Coord2d")
    /\ IsNone(builder.dim)
    /\ result = Err(MissingEntry(K_DIM))
    /\ tsp = None

C9_WitnessCapacity ==
    /\ pc = "done"
    /\ builder.kind = Some("Cvrp")
    /\ IsSome(builder.name) /\ IsSome(builder.dim)
    /\ builder.weight_kind = Some("Man2d") /\ IsSome(builder.coords)
    /\ IsNone(builder.capacity)
    /\ result = Err(MissingEntry(K_CAP))

C10_WitnessCoords ==
    /\ pc = "done"
    /\ result = Ok
    /\ Unwrap(tsp).kind = "Tsp"
    /\ Unwrap(tsp).weight_kind = "Man2d"
    /\ DOMAIN Unwrap(tsp).node_coords = {1, 2}
    /\ IsNone(builder.edge_weights)

C10_WitnessExplicit ==
    /\ pc = "done"
    /\ result = Ok
    /\ Unwrap(tsp).weight_kind = "Explicit"
    /\ Unwrap(tsp).edge_weights = <<<<7>>>>
    /\ IsNone(builder.coords)

\* The keywords of the rules of spec validation, in their order, and the
\* rule of each: the builder b lacks the value the kind requires.
SpecRuleOrder == <<K_NAME, K_TYPE, K_WEIGHT_TYPE, K_EDGE_FORMAT, K_CAP, K_DIM>>
SpecRuleViolated(key, b) ==
    CASE key = K_NAME -> IsNone(b.name)
      [] key = K_TYPE -> IsNone(b.kind)
      [] key = K_WEIGHT_TYPE ->
             IsSome(b.kind) /\ Unwrap(b.kind) \in {"Tsp", "Atsp", "Cvrp", "Sop"}
                            /\ IsNone(b.weight_kind)
      [] key = K_EDGE_FORMAT ->
             IsSome(b.kind) /\ Unwrap(b.kind) = "Hcp" /\ IsNone(b.edge_format)
      [] key = K_CAP ->
             IsSome(b.kind) /\ Unwrap(b.kind) = "Cvrp" /\ IsNone(b.capacity)
      [] key = K_DIM -> IsSome(b.kind) /\ Unwrap(b.kind) # "Tour" /\ IsNone(b.dim)
SpecRulesViolated(b) ==
    {i \in DOMAIN SpecRuleOrder : SpecRuleViolated(SpecRuleOrder[i], b)}
FirstSpecRule(b) ==
    SpecRuleOrder[CHOOSE i \in SpecRulesViolated(b) : \A j \in SpecRulesViolated(b) : i <= j]
\* The sections the data rules find missing.
DataRulesViolated(b) ==
    {k \in {K_EDGE_WEIGHT_SEC, K_NODE_COORD_SEC, K_TOUR_SEC} :
        \/ k = K_EDGE_WEIGHT_SEC /\ b.weight_kind = Some("Explicit") /\ IsNone(b.edge_weights)
        \/ k = K_NODE_COORD_SEC /\ IsSome(b.weight_kind)
                                /\ b.weight_kind # Some("Explicit") /\ IsNone(b.coords)
        \/ k = K_TOUR_SEC /\ b.kind = Some("Tour") /\ IsNone(b.tours)}

(* C22: validation returns the error of the first violated rule in the     *)
(* order NAME, TYPE, EDGE_WEIGHT_TYPE or EDGE_DATA_FORMAT, CAPACITY,       *)
(* DIMENSION, as MissingEntry of that keyword; the data rules are applied  *)
(* only when no rule of the specification is violated.                     *)
C22_FirstViolatedRule ==
    /\ SpecRulesViolated(builder) # {} =>
          /\ ValidateSpec(builder) = Err(MissingEntry(FirstSpecRule(builder)))
          /\ BuildResult(builder) = Err(MissingEntry(FirstSpecRule(builder)))
    /\ SpecRulesViolated(builder) = {} =>
          /\ ValidateSpec(builder) = Ok
          /\ IF DataRulesViolated(builder) = {}
             THEN BuildResult(builder) = Ok
             ELSE \E k \in DataRulesViolated(builder) :
                      BuildResult(builder) = Err(MissingEntry(k))
    /\ (pc = "done" /\ result.tag = "Err" /\ result.err[1] = "MissingEntry") =>
          result = BuildResult(builder)

\* A CVRP input without EDGE_WEIGHT_TYPE, CAPACITY and DIMENSION has been
\* refused for its EDGE_WEIGHT_TYPE.
C22_Witness ==
    /\ pc = "done" /\ builder.kind = Some("Cvrp") /\ IsSome(builder.name)
    /\ IsNone(builder.weight_kind) /\ IsNone(builder.capacity) /\ IsNone(builder.dim)
    /\ result = Err(MissingEntry(K_WEIGHT_TYPE))
\* A CVRP input without CAPACITY and DIMENSION has been refused for CAPACITY.
C22_WitnessCapacity ==
    /\ pc = "done" /\ builder.kind = Some("Cvrp") /\ IsSome(builder.weight_kind)
    /\ IsNone(builder.capacity) /\ IsNone(builder.dim)
    /\ result = Err(MissingEntry(K_CAP))
\* A complete specification without its data section has been refused.
C22_WitnessData ==
    /\ pc = "done" /\ SpecRulesViolated(builder) = {}
    /\ result = Err(MissingEntry(K_NODE_COORD_SEC))

----------------------------------------------------------------------------
(* Properties of the text model (SpecFile).                                *)

\* parse_it returned Ok(instance).
Parsed == pc = "done" /\ result = Ok /\ tsp # None
Instance == tsp[1]

\* The place in the text of the last line read that starts with kw, or 0.
LastLineOf(kw) ==
    LET at == {k \in 1..consumed : file[k].kw = kw}
    IN  IF at = {} THEN 0 ELSE CHOOSE k \in at : \A j \in at : j <= k

\* The variant each TYPE and EDGE_WEIGHT_TYPE keyword of TSPLIB names.
KindNamed ==
    [TSP |-> "Tsp", ATSP |-> "Atsp", SOP |-> "Sop", HCP |-> "Hcp",
     CVRP |-> "Cvrp", TOUR |-> "Tour"]
WeightKindNamed ==
    [EXPLICIT |-> "Explicit", EUC_2D |-> "Euc2d", EUC_3D |-> "Euc3d",
     MAX_2D |-> "Max2d", MAX_3D |-> "Max3d", MAN_2D |-> "Man2d",
     MAN_3D |-> "Man3d", CEIL_2D |-> "Ceil2d", GEO |-> "Geo", ATT |-> "Att",
     XRAY1 |-> "Xray1", XRAY2 |-> "Xray2", SPECIAL |-> "Custom"]

(* C11: a successful parse returns an instance whose name, kind,           *)
(* dimension, capacity and weight kind are the values of the (last)        *)
(* specification lines of the text that carry them; the text of the unit   *)
(* test parses successfully with dimension 3, kind TSP and weight kind GEO. *)
C11_InstanceEchoesSpecLines ==
    /\ Parsed =>
        /\ LastLineOf(K_NAME) # 0 => Instance.name = file[LastLineOf(K_NAME)].val
        /\ LastLineOf(K_TYPE) # 0 =>
               /\ file[LastLineOf(K_TYPE)].val \in DOMAIN KindNamed
               /\ Instance.kind = KindNamed[file[LastLineOf(K_TYPE)].val]
        /\ LastLineOf(K_DIM) # 0 => Instance.dim = file[LastLineOf(K_DIM)].toks[1]
        /\ LastLineOf(K_CAP) # 0 => Instance.capacity = file[LastLineOf(K_CAP)].toks[1]
        /\ LastLineOf(K_WEIGHT_TYPE) # 0 =>
               /\ file[LastLineOf(K_WEIGHT_TYPE)].val \in DOMAIN WeightKindNamed
               /\ Instance.weight_kind =
                      WeightKindNamed[file[LastLineOf(K_WEIGHT_TYPE)].val]
    /\ (pc = "done" /\ file = TestText) =>
        /\ Parsed
        /\ Instance.dim = 3
        /\ Instance.kind = "Tsp"
        /\ Instance.weight_kind = "Geo"

\* C11 on the texts in which no tour section has been read: what holds of
\* the code as it is.
C11_ExceptAfterTour ==
    LastLineOf(K_TOUR_SEC) = 0 => C11_InstanceEchoesSpecLines

\* The text of the unit test has been parsed.
C11_Witness ==
    /\ Parsed /\ file = TestText
    /\ Instance.name = "test" /\ Instance.dim = 3
\* A text with a CAPACITY line has been parsed.
C11_WitnessCapacity ==
    Parsed /\ LastLineOf(K_CAP) # 0 /\ Instance.capacity = 6

\* No line starting with one of the keywords has been read.
LinesUnread(kws) == \A kw \in kws : LastLineOf(kw) = 0

(* C12: in the instance of a successful parse every field that no line or  *)
(* section of the text set has its default: comment empty, dimension and   *)
(* capacity 0, weight kind, weight format, edge format, coordinate kind    *)
(* and display kind Undefined, every collection empty.                     *)
C12_UnsetFieldsDefault ==
    Parsed =>
        /\ LinesUnread({K_COMMENT}) => Instance.comment = ""
        /\ LinesUnread({K_DIM}) => Instance.dim = 0
        /\ LinesUnread({K_CAP}) => Instance.capacity = 0
        /\ LinesUnread({K_WEIGHT_TYPE}) => Instance.weight_kind = "Undefined"
        /\ LinesUnread({K_WEIGHT_FORMAT}) => Instance.weight_format = "Undefined"
        /\ LinesUnread({K_EDGE_FORMAT}) => Instance.edge_format = EdgeFormatUndefined
        /\ LinesUnread({K_NODE_COORD_TYPE, K_WEIGHT_TYPE}) =>
               Instance.coord_kind = "Undefined"
        /\ LinesUnread({K_DISP_TYPE}) => Instance.disp_kind = "Undefined"
        /\ LinesUnread({K_NODE_COORD_SEC}) => Instance.node_coords = <<>>
        /\ LinesUnread({K_DEMAND_SEC}) => Instance.demands = <<>>
        /\ LinesUnread({"DEPOT_SECTION"}) => Instance.depots = {}
        /\ LinesUnread({K_EDGE_WEIGHT_SEC}) => Instance.edge_weights = <<>>
        /\ LinesUnread({K_DISPLAY_SEC}) => Instance.disp_coords = <<>>
        /\ LinesUnread({"FIXED_EDGES_SECTION"}) => Instance.fixed_edges = <<>>
        /\ LinesUnread({K_TOUR_SEC}) => Instance.tours = <<>>

\* A text with a DIMENSION line and neither COMMENT nor CAPACITY line has
\* been parsed.
C12_Witness ==
    /\ Parsed /\ LinesUnread({K_COMMENT, K_CAP}) /\ ~LinesUnread({K_DIM})
    /\ Instance.comment = "" /\ Instance.capacity = 0 /\ Instance.dim > 0
\* A tour text without DIMENSION and without EDGE_WEIGHT_TYPE has been parsed.
C12_WitnessTour ==
    /\ Parsed /\ LinesUnread({K_DIM, K_WEIGHT_TYPE, K_NODE_COORD_SEC})
    /\ Instance.dim = 0 /\ Instance.weight_kind = "Undefined"
    /\ Instance.node_coords = <<>> /\ Instance.tours # <<>>

\* The ten specification keys, and the sections that pull DIMENSION lines.
SpecKeySet ==
    {K_NAME, K_TYPE, K_COMMENT, K_DIM, K_CAP, K_WEIGHT_TYPE, K_WEIGHT_FORMAT,
     K_EDGE_FORMAT, K_NODE_COORD_TYPE, K_DISP_TYPE}
CountedSections == {K_NODE_COORD_SEC, K_DEMAND_SEC, K_DISPLAY_SEC}
\* Lines j+1 .. k of the text are data lines with tokens.
AllData(j, k) == \A i \in (j + 1)..k : IsData(file[i]) /\ ~IsBlank(file[i])

\* The EDGE_DATA_SECTION and FIXED_EDGES_SECTION lines before line j: their
\* loops take a lone keyword for a line without a pair and read on.
PairHeadersBefore(j) ==
    {k \in 1..(j - 1) : file[k].kw \in {K_EDGE_DATA_SEC, K_FIXED_EDGES_SEC}}

\* Line k of the text begins with EOF and stands directly after a
\* specification line, ...
EOFAfterSpecLine(k) ==
    k > 1 /\ file[k].kw = "EOF" /\ file[k - 1].kw \in SpecKeySet
\* ... after the last of the DIMENSION lines of a section, ...
EOFAfterCounted(k) ==
    /\ file[k].kw = "EOF" /\ IsSome(builder.dim)
    /\ k - 1 - Unwrap(builder.dim) >= 1
    /\ file[k - 1 - Unwrap(builder.dim)].kw \in CountedSections
    /\ AllData(k - 1 - Unwrap(builder.dim), k - 1)
\* ... or after the -1 that closes a tour of a tour section.
EOFAfterTour(k) ==
    /\ k > 2 /\ file[k].kw = "EOF" /\ IsSentinel(file[k - 1])
    /\ \E j \in 1..(k - 2) : file[j].kw = K_TOUR_SEC /\ AllData(j, k - 1)

\* The scan has ended at line k: nothing after it was read, and the result
\* is that of build on the lines before it.
EndedAt(k) ==
    /\ consumed = k
    /\ pc = "done"
    /\ result = BuildResult(builder)

(* C14: a line beginning with EOF that follows a specification line or a   *)
(* completed data section ends the scan: once it is read, the parse has    *)
(* returned the result of build, and no line after it is read.  (The lines *)
(* are not read as lines of an edge section before them.)                  *)
C14_EOFEndsScan ==
    \A k \in 1..Len(file) :
        (/\ consumed >= k /\ PairHeadersBefore(k) = {}
         /\ EOFAfterSpecLine(k) \/ EOFAfterCounted(k) \/ EOFAfterTour(k)) =>
            EndedAt(k)

\* C14 for an EOF after a specification line or a section of DIMENSION
\* lines: what holds of the code as it is.
C14_ExceptAfterTour ==
    \A k \in 1..Len(file) :
        (/\ consumed >= k /\ PairHeadersBefore(k) = {}
         /\ EOFAfterSpecLine(k) \/ EOFAfterCounted(k)) =>
            EndedAt(k)
\* The EOF of the unit-test text, with a line after it, has ended the scan.
C14_Witness ==
    \E k \in 1..Len(file) :
        /\ k < Len(file) /\ ~IsBlank(file[k + 1])
        /\ EOFAfterCounted(k) /\ EndedAt(k) /\ result = Ok
\* An EOF after a specification line, with a line after it, has ended the scan.
C14_WitnessSpecLine ==
    \E k \in 1..Len(file) :
        /\ k < Len(file) /\ ~IsBlank(file[k + 1])
        /\ EOFAfterSpecLine(k) /\ EndedAt(k)

\* The coordinate kind each NODE_COORD_TYPE keyword names, and the kind
\* each weight kind implies.
CoordKindNamed ==
    [TWOD_COORDS |-> "Coord2d", THREED_COORDS |-> "Coord3d", NO_COORDS |-> "NoCoord"]
CoordKindImplied(wk) ==
    IF wk \in {"Euc2d", "Max2d", "Man2d", "Ceil2d", "Geo", "Att"} THEN "Coord2d"
    ELSE IF wk \in {"Euc3d", "Max3d", "Man3d"} THEN "Coord3d"
    ELSE "Undefined"
\* The coordinate kind the lines read call for: that of the NODE_COORD_TYPE
\* line if there is one, else the one the EDGE_WEIGHT_TYPE line implies.
CoordKindOfText ==
    IF LastLineOf(K_NODE_COORD_TYPE) # 0
    THEN CoordKindNamed[file[LastLineOf(K_NODE_COORD_TYPE)].val]
    ELSE IF LastLineOf(K_WEIGHT_TYPE) # 0
    THEN CoordKindImplied(WeightKindNamed[file[LastLineOf(K_WEIGHT_TYPE)].val])
    ELSE "Undefined"

(* C16: the coordinate kind of the instance is the one the NODE_COORD_TYPE *)
(* line names, whether that line stands before or after EDGE_WEIGHT_TYPE;  *)
(* without such a line it is the kind EDGE_WEIGHT_TYPE implies.            *)
C16_ExplicitCoordKindWins ==
    Parsed => Instance.coord_kind = CoordKindOfText

\* C16 for the texts whose NODE_COORD_TYPE line, if any, stands after the
\* EDGE_WEIGHT_TYPE line, and in which no tour section has been read: what
\* holds of the code as it is.
C16_ExceptBeforeWeightType ==
    (/\ Parsed
     /\ LastLineOf(K_TOUR_SEC) = 0
     /\ LastLineOf(K_NODE_COORD_TYPE) # 0 =>
            LastLineOf(K_NODE_COORD_TYPE) > LastLineOf(K_WEIGHT_TYPE)) =>
        Instance.coord_kind = CoordKindOfText
\* A NODE_COORD_TYPE line after EDGE_WEIGHT_TYPE has replaced the implied kind.
C16_Witness ==
    /\ Parsed
    /\ LastLineOf(K_WEIGHT_TYPE) # 0
    /\ LastLineOf(K_NODE_COORD_TYPE) > LastLineOf(K_WEIGHT_TYPE)
    /\ Instance.coord_kind # CoordKindImplied(Instance.weight_kind)
    /\ Instance.coord_kind = CoordKindOfText
\* Without NODE_COORD_TYPE line the instance has the implied kind.
C16_WitnessImplied ==
    /\ Parsed /\ LastLineOf(K_NODE_COORD_TYPE) = 0
    /\ Instance.coord_kind = "Coord2d"

\* The places of the TOUR_SECTION lines read.
TourHeaders == {k \in 1..consumed : file[k].kw = K_TOUR_SEC}
\* A line of identifiers: it continues the section after a -1.
IsIds(l) == IsData(l) /\ ~IsBlank(l) /\ l.toks[1] >= 0
\* The places after header j where the section may end: a -1 line that no
\* line of identifiers follows.
TourEnds(j) ==
    {i \in (j + 1)..Len(file) :
        /\ IsSentinel(file[i])
        /\ i < Len(file) => ~IsIds(file[i + 1])}
TourEnd(j) == CHOOSE i \in TourEnds(j) : \A k \in TourEnds(j) : i <= k
\* The runs of identifiers of the lines ls, each closed by a -1 line.
RECURSIVE Runs(_, _, _)
Runs(ls, run, out) ==
    IF ls = <<>> THEN out
    ELSE IF IsSentinel(Head(ls)) THEN Runs(Tail(ls), <<>>, Append(out, run))
    ELSE Runs(Tail(ls), run \o Head(ls).toks, out)

(* C17: the tours of the instance are exactly the runs of identifiers      *)
(* between the -1 lines of the tour section, in the order of the text, the *)
(* identifiers of a run joined across its lines; `4 3 2 1`, -1, EOF gives  *)
(* one tour of length 4, and two runs closed by -1 and a second -1 give    *)
(* the two runs.  (Texts with one TOUR_SECTION line, which is not read as  *)
(* a line of an edge section before it.)                                   *)
C17_ToursAreRuns ==
    /\ (Parsed /\ Cardinality(TourHeaders) = 1) =>
           LET j == CHOOSE k \in TourHeaders : TRUE
           IN  PairHeadersBefore(j) = {} =>
                  /\ TourEnds(j) # {}
                  /\ Instance.tours = Runs(SubSeq(file, j + 1, TourEnd(j)), <<>>, <<>>)
    /\ (pc = "done" /\ file = TourText1) =>
           Parsed /\ Instance.tours = << <<4, 3, 2, 1>> >>
    /\ (pc = "done" /\ file = TourText2) =>
           Parsed /\ Instance.tours = << <<1, 2, 3, 4>>, <<4, 3, 2, 1>> >>

\* The second text of test_tour has been parsed into its two tours.
C17_Witness ==
    /\ Parsed /\ file = TourText2
    /\ Instance.tours = << <<1, 2, 3, 4>>, <<4, 3, 2, 1>> >>
\* The first text of test_tour has been parsed into its one tour.
C17_WitnessOne ==
    /\ Parsed /\ file = TourText1
    /\ Instance.tours = << <<4, 3, 2, 1>> >>

\* The variants the other enumeration keywords name.
WeightFormatNamed ==
    [FUNCTION |-> "Function", FULL_MATRIX |-> "FullMatrix", UPPER_ROW |-> "UpperRow",
     LOWER_ROW |-> "LowerRow", UPPER_DIAG_ROW |-> "UpperDiagRow",
     LOWER_DIAG_ROW |-> "LowerDiagRow", UPPER_COL |-> "UpperCol",
     LOWER_COL |-> "LowerCol", UPPER_DIAG_COL |-> "UpperDiagCol",
     LOWER_DIAG_COL |-> "LowerDiagCol"]
EdgeFormatNamed == [EDGE_LIST |-> EdgeList(<<>>), ADJ_LIST |-> AdjList]
DisplayKindNamed ==
    [COORD_DISPLAY |-> "DispCoo", TWOD_DISPLAY |-> "Disp2d", NO_DISPLAY |-> "NoDisp"]
\* Each enumeration keyword with the builder field it sets and its tokens.
EnumKeys ==
    {[key |-> K_TYPE, field |-> "kind", named |-> KindNamed],
     [key |-> K_WEIGHT_TYPE, field |-> "weight_kind", named |-> WeightKindNamed],
     [key |-> K_WEIGHT_FORMAT, field |-> "weight_format", named |-> WeightFormatNamed],
     [key |-> K_EDGE_FORMAT, field |-> "edge_format", named |-> EdgeFormatNamed],
     [key |-> K_NODE_COORD_TYPE, field |-> "coord_kind", named |-> CoordKindNamed],
     [key |-> K_DISP_TYPE, field |-> "disp_kind", named |-> DisplayKindNamed]}

\* C18 on the value the splitter hands to the conversion: a step of the
\* dispatch loop on a line of an enumeration keyword either sets the field
\* to the variant the token names, or ends the parse with InvalidInput of
\* the keyword and the token, no further line read.  What holds of the code
\* as it is.
C18_ExceptSecondColon ==
    [][\A e \in EnumKeys :
          AtKey(e.key) =>
              IF FileLine.val \in DOMAIN e.named
              THEN /\ builder'[e.field] = Some(e.named[FileLine.val])
                   /\ pc' = "scan" /\ result' = Pending
              ELSE /\ result' = Err(InvalidInput(e.key, FileLine.val))
                   /\ pc' = "done" /\ tsp' = None
                   /\ consumed' = consumed + 1
                   /\ builder' = builder]_vars
\* Each enumeration keyword has been refused with an unknown token, ...
C18_WitnessRefused ==
    \E e \in EnumKeys : pc = "done" /\ result = Err(InvalidInput(e.key, "XYZ"))
\* ... and EDGE_DATA_FORMAT accepted with a known one.
C18_WitnessAccepted ==
    pc = "scan" /\ builder.edge_format = Some(EdgeList(<<>>))

\* The headers of the sections that need a value of the specification, and
\* those of the sections that start with validate_spec.
SectionKeys ==
    {K_NODE_COORD_SEC, K_DEMAND_SEC, K_DISPLAY_SEC, K_TOUR_SEC, K_EDGE_WEIGHT_SEC}
ValidatingKeys == SectionKeys \cup {K_DEPOT_SEC}
\* The parse has ended at a line; at the end of the text.
AtLine == consumed >= 1 /\ consumed <= Len(file)
AtEnd == consumed = Len(file) \/ (AtLine /\ file[consumed].kw = "EOF")

(* C19: every failure of the parse is a typed error: the parse never ends  *)
(* in another way than Ok or Err, an Err comes with no instance, and it is *)
(* returned at the line that causes it.                                    *)
C19_FailuresAreTypedErrors ==
    /\ result.tag \in {"Pending", "Ok", "Err"}
    /\ result.tag = "Err" =>
        /\ pc = "done" /\ tsp = None
        /\ result.err[1] = "InvalidInput" =>
               /\ AtLine
               /\ file[consumed].kw = result.err[2]
               /\ file[consumed].val = result.err[3]
        /\ result.err[1] = "InvalidEntry" =>
               AtLine /\ file[consumed] = result.err[2]
        /\ result.err[1] = "MissingEntry" =>
               AtEnd \/ (AtLine /\ file[consumed].kw \in ValidatingKeys)

\* C19 for the parses that end with Ok or Err: what holds of the code as it
\* is.
C19_ExceptPanics ==
    result.tag # "Panic" => C19_FailuresAreTypedErrors
\* A typed error of each kind has been returned at its line.
C19_Witness ==
    /\ pc = "done" /\ result.tag = "Err" /\ result.err[1] = "InvalidInput"
    /\ consumed < Len(file) /\ tsp = None
C19_WitnessMissing ==
    /\ pc = "done" /\ result.tag = "Err" /\ result.err[1] = "MissingEntry"
    /\ AtLine /\ file[consumed].kw \in SectionKeys /\ consumed < Len(file)
C19_WitnessInvalidEntry ==
    /\ pc = "done" /\ result.tag = "Err" /\ result.err[1] = "InvalidEntry"
    /\ consumed < Len(file)

\* The builder lacks a value the section of header kw needs.
Lacks(kw, b) ==
    CASE kw = K_NODE_COORD_SEC ->
             \/ IsNone(b.dim)
             \/ IsNone(b.coord_kind)
             \/ Unwrap(b.coord_kind) \in {"Undefined", "NoCoord"}
      [] kw \in {K_DEMAND_SEC, K_DISPLAY_SEC} -> IsNone(b.dim)
      [] kw = K_EDGE_WEIGHT_SEC -> IsNone(b.dim) \/ IsNone(b.weight_format)
      [] OTHER -> FALSE
\* The parse has ended at a section header: the section returned without
\* reading a line, and the builder is the one the header met.
EndedAtHeader ==
    pc = "done" /\ AtLine /\ file[consumed].kw \in SectionKeys

(* C20: a section header reached while the builder lacks a value the       *)
(* section needs (DIMENSION; a coordinate kind other than Undefined and    *)
(* NO_COORDS for the node coordinates; EDGE_WEIGHT_FORMAT for the edge     *)
(* weights) makes the parse return a typed error.                          *)
C20_MissingValueIsTypedError ==
    (EndedAtHeader /\ Lacks(file[consumed].kw, builder)) => result.tag = "Err"

\* C20 for a missing DIMENSION when the kind is set and is not TOUR: what
\* holds of the code as it is.
C20_ExceptAfterValidation ==
    (/\ EndedAtHeader
     /\ file[consumed].kw # K_TOUR_SEC
     /\ IsNone(builder.dim)
     /\ IsSome(builder.kind) /\ Unwrap(builder.kind) # "Tour") =>
        result.tag = "Err"
\* A NODE_COORD_SECTION header without DIMENSION has given MissingEntry.
C20_Witness ==
    /\ EndedAtHeader /\ file[consumed].kw = K_NODE_COORD_SEC
    /\ IsNone(builder.dim) /\ IsSome(builder.weight_kind)
    /\ result = Err(MissingEntry(K_DIM))

\* The n lines after the header the dispatch loop is at, and their ids.
LinesAfterHeader(n) == SubSeq(file, consumed + 2, consumed + 1 + n)
DistinctIds(ls) ==
    \A i, j \in 1..Len(ls) :
        (i # j /\ ls[i].toks # <<>> /\ ls[j].toks # <<>>) => ls[i].toks[1] # ls[j].toks[1]
\* The section at whose header the loop is has returned Ok in this step.
SectionDone(kw) == AtKey(kw) /\ IsSome(builder.dim) /\ pc' = "scan"

(* C21: with DIMENSION n set, a NODE_COORD_SECTION, DEMAND_SECTION or      *)
(* DISPLAY_DATA_SECTION that returns has read exactly the n lines after    *)
(* its header and stored n records: n coordinates when the ids are         *)
(* distinct, n demands, n display points.                                  *)
C21_CountedSectionsReadDim ==
    [][LET n == Unwrap(builder.dim)
       IN  /\ SectionDone(K_NODE_COORD_SEC) =>
                 /\ consumed' = consumed + 1 + n
                 /\ DistinctIds(LinesAfterHeader(n)) =>
                        Cardinality(DOMAIN Unwrap(builder'.coords)) = n
           /\ SectionDone(K_DEMAND_SEC) =>
                 /\ consumed' = consumed + 1 + n
                 /\ Cardinality(DOMAIN Unwrap(builder'.demands)) = n
           /\ SectionDone(K_DISPLAY_SEC) =>
                 /\ consumed' = consumed + 1 + n
                 /\ Len(Unwrap(builder'.disp_coords)) = n]_vars

\* C21 with the demand lines required to hold an id and a demand each, the
\* ids distinct: what holds of the code as it is.
C21_ExceptShortDemandLines ==
    [][LET n == Unwrap(builder.dim)
       IN  /\ SectionDone(K_NODE_COORD_SEC) =>
                 /\ consumed' = consumed + 1 + n
                 /\ DistinctIds(LinesAfterHeader(n)) =>
                        Cardinality(DOMAIN Unwrap(builder'.coords)) = n
           /\ SectionDone(K_DEMAND_SEC) =>
                 /\ consumed' = consumed + 1 + n
                 /\ (/\ DistinctIds(LinesAfterHeader(n))
                     /\ \A i \in 1..n : Len(LinesAfterHeader(n)[i].toks) >= 2) =>
                        Cardinality(DOMAIN Unwrap(builder'.demands)) = n
           /\ SectionDone(K_DISPLAY_SEC) =>
                 /\ consumed' = consumed + 1 + n
                 /\ Len(Unwrap(builder'.disp_coords)) = n]_vars
\* The three sections of the CVRP text have been read, two records each.
C21_Witness ==
    /\ Parsed /\ Instance.dim = 2
    /\ Cardinality(DOMAIN Instance.node_coords) = 2
    /\ Cardinality(DOMAIN Instance.demands) = 2
    /\ Len(Instance.disp_coords) = 2
\* A demand section of two lines has returned with one demand.
C21_WitnessShortLine ==
    /\ IsSome(builder.dim) /\ Unwrap(builder.dim) = 2
    /\ IsSome(builder.demands) /\ Cardinality(DOMAIN Unwrap(builder.demands)) = 1


\* The lines ls are lines of identifiers and -1 lines, no two -1 lines in a row.
OpenTourLines(ls) ==
    /\ \A k \in 1..Len(ls) : IsSentinel(ls[k]) \/ (IsIds(ls[k]) /\ AllUsize(ls[k].toks))
    /\ \A k \in 1..(Len(ls) - 1) : ~(IsSentinel(ls[k]) /\ IsSentinel(ls[k + 1]))
\* The places of ls where a second -1 line ends the section.
DoubleEnds(ls) ==
    {i \in 2..Len(ls) :
        /\ IsSentinel(ls[i - 1]) /\ IsSentinel(ls[i])
        /\ OpenTourLines(SubSeq(ls, 1, i - 1))}
\* The text runs out inside the section: after a -1 line, or inside a run.
EndsAfterSentinel(ls) == OpenTourLines(ls) /\ ls # <<>> /\ IsSentinel(ls[Len(ls)])
EndsInsideRun(ls) == OpenTourLines(ls) /\ ls # <<>> /\ ~IsSentinel(ls[Len(ls)])
\* The tour section stored tours and the scan goes on with n more lines read.
TourSectionStored(tours, n) ==
    /\ result' = Pending /\ pc' = "scan"
    /\ builder' = [builder EXCEPT !.tours = Some(tours)]
    /\ consumed' = consumed + 1 + n

(* C24: a tour section ends without failure in both of its end conditions: *)
(* at the second of two consecutive -1 lines, and when the input runs out, *)
(* after a -1 line or in the middle of a run.  The tours closed so far are *)
(* stored and the scan goes on to the build.                               *)
C24_TourSectionEnds ==
    [][(AtKey(K_TOUR_SEC) /\ ValidateSpec(builder) = Ok) =>
          /\ DoubleEnds(FileRest) # {} =>
                LET i == CHOOSE e \in DoubleEnds(FileRest) : TRUE
                IN  TourSectionStored(Runs(SubSeq(FileRest, 1, i - 1), <<>>, <<>>), i)
          /\ (EndsAfterSentinel(FileRest) \/ EndsInsideRun(FileRest)) =>
                TourSectionStored(Runs(FileRest, <<>>, <<>>), Len(FileRest))]_vars

\* C24 without the end inside a run: what holds of the code as it is.
C24_ExceptInsideRun ==
    [][(AtKey(K_TOUR_SEC) /\ ValidateSpec(builder) = Ok) =>
          /\ DoubleEnds(FileRest) # {} =>
                LET i == CHOOSE e \in DoubleEnds(FileRest) : TRUE
                IN  TourSectionStored(Runs(SubSeq(FileRest, 1, i - 1), <<>>, <<>>), i)
          /\ EndsAfterSentinel(FileRest) =>
                TourSectionStored(Runs(FileRest, <<>>, <<>>), Len(FileRest))
          /\ EndsInsideRun(FileRest) =>
                result' = Panic /\ pc' = "done" /\ tsp' = None]_vars

\* A tour section whose text ran out inside a run has failed.
C24_WitnessInsideRun ==
    /\ result = Panic /\ consumed = Len(file)
    /\ \E j \in TourHeaders :
          EndsInsideRun(SubSeq(file, j + 1, Len(file))) /\ AllData(j + 1, Len(file))
\* A tour section whose text ran out after a -1 line has been built.
C24_WitnessAfterSentinel ==
    /\ Parsed /\ consumed = Len(file)
    /\ IsSentinel(file[Len(file)])
    /\ Instance.tours = << <<4, 3, 2, 1>> >>


\* The places of ls that hold a line starting with -1, and the first of them.
Sentinels(ls) == {i \in 1..Len(ls) : IsSentinel(ls[i])}
FirstSentinel(ls) == CHOOSE i \in Sentinels(ls) : \A k \in Sentinels(ls) : i <= k
\* The lines of ls before its first -1 line.
UpToSentinel(ls) == SubSeq(ls, 1, FirstSentinel(ls) - 1)
\* Every line of ls is a line of numbers from 0 up, or blank.
NumberLines(ls) == \A k \in 1..Len(ls) : IsData(ls[k]) /\ AllUsize(ls[k].toks)
HasPair(l) == Len(l.toks) >= 2
\* The (node, node) pairs of the lines ls, in order.
PairsOf(ls) ==
    [k \in 1..Len(SelectSeq(ls, HasPair)) |->
        <<SelectSeq(ls, HasPair)[k].toks[1], SelectSeq(ls, HasPair)[k].toks[2]>>]
\* The edge list of builder b (none unless the format is EDGE_LIST).
IsEdgeList(b) == IsSome(b.edge_format) /\ Unwrap(b.edge_format)[1] = "EdgeList"
EdgesOf(b) == Unwrap(b.edge_format)[2]
\* A failure that is a typed error naming keyword k.
ErrorNaming(res, k) == \E e \in {"MissingEntry", "InvalidEntry"} : res = Err(<<e, k>>)

(* C25: EDGE_DATA_SECTION appends the pairs of the lines up to the -1 line,*)
(* in order, to the edge list only when the edge format is already         *)
(* EDGE_LIST; when EDGE_DATA_FORMAT is absent or undefined the parse       *)
(* returns a typed error naming EDGE_DATA_FORMAT and reads no line of the  *)
(* section.                                                                *)
C25_EdgeDataNeedsEdgeList ==
    [][AtKey(K_EDGE_DATA_SEC) =>
          /\ (/\ IsEdgeList(builder) /\ Sentinels(FileRest) # {}
              /\ NumberLines(UpToSentinel(FileRest))) =>
                 /\ result' = Pending /\ pc' = "scan"
                 /\ consumed' = consumed + 1 + FirstSentinel(FileRest)
                 /\ builder' = [builder EXCEPT !.edge_format =
                        Some(EdgeList(EdgesOf(builder) \o PairsOf(UpToSentinel(FileRest))))]
          /\ ~IsEdgeList(builder) => builder' = builder
          /\ (IsNone(builder.edge_format)
                 \/ builder.edge_format = Some(EdgeFormatUndefined)) =>
                 /\ ErrorNaming(result', K_EDGE_FORMAT)
                 /\ pc' = "done" /\ tsp' = None
                 /\ consumed' = consumed + 1]_vars

\* C25 with the absent format as the code treats it: what holds as it is.
C25_ExceptAbsentFormat ==
    [][AtKey(K_EDGE_DATA_SEC) =>
          /\ (/\ IsEdgeList(builder) /\ Sentinels(FileRest) # {}
              /\ NumberLines(UpToSentinel(FileRest))) =>
                 /\ result' = Pending /\ pc' = "scan"
                 /\ consumed' = consumed + 1 + FirstSentinel(FileRest)
                 /\ builder' = [builder EXCEPT !.edge_format =
                        Some(EdgeList(EdgesOf(builder) \o PairsOf(UpToSentinel(FileRest))))]
          /\ ~IsEdgeList(builder) =>
                 /\ builder' = builder
                 /\ result' = Panic /\ pc' = "done" /\ tsp' = None
                 /\ consumed' = consumed + 1]_vars

\* An EDGE_DATA_SECTION line was reached with no edge format, and failed.
C25_WitnessAbsent ==
    /\ result = Panic /\ consumed >= 1 /\ consumed <= Len(file)
    /\ file[consumed].kw = K_EDGE_DATA_SEC
    /\ IsNone(builder.edge_format)
\* The edges of the HCP text have been appended to the edge list.
C25_WitnessAppended ==
    /\ file = HcpText
    /\ IsEdgeList(builder) /\ EdgesOf(builder) = << <<1, 2>>, <<2, 1>> >>


\* Every line of ls holds one identifier and nothing else.
IdLines(ls) ==
    \A k \in 1..Len(ls) : IsData(ls[k]) /\ Len(ls[k].toks) = 1 /\ ls[k].toks[1] >= 0
\* The identifiers of the lines ls.
IdsOf(ls) == {ls[k].toks[1] : k \in 1..Len(ls)}

(* C26: DEPOT_SECTION reads one identifier a line up to the first line     *)
(* that begins with -1 and stores the set of these identifiers, repeated   *)
(* identifiers counting once; the line after the -1 line is the next one   *)
(* the dispatch loop handles.                                              *)
C26_DepotsAreTheIds ==
    [][(/\ AtKey(K_DEPOT_SEC) /\ ValidateSpec(builder) = Ok
        /\ Sentinels(FileRest) # {}
        /\ IdLines(UpToSentinel(FileRest))) =>
          /\ builder' = [builder EXCEPT !.depots = Some(IdsOf(UpToSentinel(FileRest)))]
          /\ Cardinality(Unwrap(builder'.depots)) <= FirstSentinel(FileRest) - 1
          /\ consumed' = consumed + 1 + FirstSentinel(FileRest)
          /\ result' = Pending /\ pc' = "scan"]_vars

\* A depot section that names the depot 1 twice has been read into one depot.
C26_Witness ==
    /\ pc = "scan" /\ consumed >= 4
    /\ file[consumed - 3].kw = K_DEPOT_SEC
    /\ file[consumed - 2] = DataLine(<<1>>) /\ file[consumed - 1] = DataLine(<<1>>)
    /\ IsSentinel(file[consumed])
    /\ builder.depots = Some({1})
\* The depot of the CVRP text is in the instance.
C26_WitnessBuilt == Parsed /\ file = CvrpText /\ Instance.depots = {1}
\* A depot section with two depots has been read.
C26_WitnessTwo ==
    /\ pc = "scan" /\ IsSome(builder.depots)
    /\ Cardinality(Unwrap(builder.depots)) = 2


\* The fields of the builder, and those the specification lines set.
BuilderFields == DOMAIN NewBuilder
SpecFields ==
    {"name", "kind", "comment", "dim", "capacity", "weight_kind", "weight_format",
     "coord_kind", "disp_kind"}
\* Each section keyword with the one field its parser sets.
SectionField ==
    [NODE_COORD_SECTION |-> "coords", DEPOT_SECTION |-> "depots",
     DEMAND_SECTION |-> "demands", EDGE_DATA_SECTION |-> "edge_format",
     FIXED_EDGES_SECTION |-> "fixed_edges", DISPLAY_DATA_SECTION |-> "disp_coords",
     TOUR_SECTION |-> "tours", EDGE_WEIGHT_SECTION |-> "edge_weights"]

(* C27: a section parser changes exactly one field of the builder and      *)
(* leaves every other field as it was: FIXED_EDGES_SECTION changes only    *)
(* fixed_edges and never the edge list, EDGE_DATA_SECTION changes only the *)
(* edge list (the format stays EDGE_LIST), and no section changes a field  *)
(* of the specification.                                                   *)
C27_SectionChangesOneField ==
    [][\A kw \in DOMAIN SectionField :
          AtKey(kw) =>
              /\ \A f \in BuilderFields \ {SectionField[kw]} : builder'[f] = builder[f]
              /\ \A f \in SpecFields : builder'[f] = builder[f]
              /\ (kw = K_EDGE_DATA_SEC /\ builder' # builder) =>
                     IsEdgeList(builder) /\ IsEdgeList(builder')
              /\ pc' = "scan" => IsSome(builder'[SectionField[kw]])]_vars

\* A fixed-edges section has been read after the edge list was filled, and
\* the edge list is as the edge-data section left it.
C27_Witness ==
    /\ file = HcpText /\ pc = "scan"
    /\ builder.fixed_edges = Some(<< <<1, 2>> >>)
    /\ EdgesOf(builder) = << <<1, 2>>, <<2, 1>> >>
\* Every section has been read in some text.
C27_WitnessCoords == pc = "scan" /\ IsSome(builder.coords) /\ IsSome(builder.demands)


\* The line a tour section that starts at the next line looks ahead at: the
\* line after the first -1 line that no line of identifiers follows.
LookaheadAt(ls) ==
    CHOOSE i \in 2..Len(ls) :
        /\ IsSentinel(ls[i - 1]) /\ ~IsIds(ls[i])
        /\ \A k \in 2..(i - 1) : IsSentinel(ls[k - 1]) => IsIds(ls[k])
HasLookahead(ls) ==
    /\ \E i \in 2..Len(ls) : IsSentinel(ls[i - 1]) /\ ~IsIds(ls[i])
    /\ OpenTourLines(SubSeq(ls, 1, LookaheadAt(ls) - 1))
\* The line looked at is EOF, a section header or a specification keyword.
IsKeywordLine(l) == l.kw \in DispatchKeySet

(* C28: the line the tour parser looks ahead at after a -1 line is not     *)
(* lost when it does not continue the tour: when it is EOF, a section      *)
(* header or a specification keyword, it is the next line the dispatch     *)
(* loop handles once the tour section has returned.                        *)
C28_LookaheadLineKept ==
    [][(/\ AtKey(K_TOUR_SEC) /\ ValidateSpec(builder) = Ok
        /\ HasLookahead(FileRest)
        /\ IsKeywordLine(FileRest[LookaheadAt(FileRest)])) =>
          /\ result' = Pending /\ pc' = "scan"
          /\ consumed' = consumed + LookaheadAt(FileRest)
          /\ file[consumed' + 1] = FileRest[LookaheadAt(FileRest)]]_vars

\* What holds of the code as it is: the line looked at is pulled from the
\* iterator and the dispatch loop goes on with the line after it.
C28_ExceptLookaheadPulled ==
    [][(/\ AtKey(K_TOUR_SEC) /\ ValidateSpec(builder) = Ok
        /\ HasLookahead(FileRest)
        /\ IsKeywordLine(FileRest[LookaheadAt(FileRest)])) =>
          /\ result' = Pending /\ pc' = "scan"
          /\ consumed' = consumed + 1 + LookaheadAt(FileRest)
          /\ builder'.tours =
                Some(Runs(SubSeq(FileRest, 1, LookaheadAt(FileRest) - 1), <<>>, <<>>))]_vars

\* The EOF line after the tour of the first test text was looked at, and
\* the scan stands behind it.
C28_WitnessEOF ==
    /\ file = TourText1 /\ pc = "scan" /\ IsSome(builder.tours)
    /\ file[consumed].kw = "EOF"
\* A DIMENSION line directly after a tour was passed over without effect.
C28_WitnessKeyword ==
    /\ pc = "scan" /\ IsSome(builder.tours) /\ consumed >= 2
    /\ file[consumed].kw = K_DIM /\ file[consumed].toks = <<1>>
    /\ IsSentinel(file[consumed - 1])
    /\ builder.dim = Some(4)


\* The lengths of the rows, in order.
Shape(rows) == [r \in 1..Len(rows) |-> Len(rows[r])]
\* The places of the EDGE_WEIGHT_SECTION lines read, and the DIMENSION and
\* EDGE_WEIGHT_FORMAT lines read after one of them.
WeightHeaders == {k \in 1..consumed : file[k].kw = K_EDGE_WEIGHT_SEC}
ShapeLinesAfterSection ==
    {k \in 1..consumed :
        /\ file[k].kw \in {K_DIM, K_WEIGHT_FORMAT}
        /\ \E j \in WeightHeaders : j < k}

(* C29: in every instance of a successful parse with weight kind Explicit  *)
(* the stored rows have the count and lengths the table gives for the      *)
(* instance's own weight format and dimension, whatever the order of the   *)
(* lines, a DIMENSION or EDGE_WEIGHT_FORMAT line after EDGE_WEIGHT_SECTION *)
(* included; weight(a, b) stays in range for all 0 <= a, b < dim.          *)
C29_RowsFitFormatAndDim ==
    (Parsed /\ Instance.weight_kind = "Explicit") =>
        /\ Instance.weight_format \in TriangularFormats \cup {"FullMatrix"} =>
              Shape(Instance.edge_weights) =
                  TableRowLens(Instance.weight_format, Instance.dim)
        /\ \A a, b \in 0..(Instance.dim - 1) : Weight(Instance, a, b).ok

\* C29 for the texts without such a line after the section: what holds of
\* the code as it is.
C29_ExceptLinesAfterSection ==
    (Parsed /\ Instance.weight_kind = "Explicit" /\ ShapeLinesAfterSection = {}) =>
        /\ Instance.weight_format \in TriangularFormats \cup {"FullMatrix"} =>
              Shape(Instance.edge_weights) =
                  TableRowLens(Instance.weight_format, Instance.dim)
        /\ \A a, b \in 0..(Instance.dim - 1) : Weight(Instance, a, b).ok

\* A format line after the section left an instance whose weights cannot
\* all be read.
C29_WitnessOutOfRange ==
    /\ Parsed /\ Instance.weight_kind = "Explicit"
    /\ ShapeLinesAfterSection # {}
    /\ \E a, b \in 0..(Instance.dim - 1) : ~Weight(Instance, a, b).ok
\* The weight text as it stands has been parsed.
C29_WitnessFits ==
    /\ Parsed /\ file = WeightText
    /\ Shape(Instance.edge_weights) = <<4, 3, 2, 1>>

----------------------------------------------------------------------------
(* Properties of the line text (SpecText).                                 *)

\* The one line of the text has been handed to the dispatch loop.
LineDone == consumed = 1 /\ Len(file) = 1
\* The leading token of a trimmed line: its atoms up to the first blank or
\* colon.
LeadingToken(t) ==
    LET stop == {k \in 1..Len(t) : t[k] \in {" ", ":"}}
    IN  IF stop = {} THEN t
        ELSE SubSeq(t, 1, (CHOOSE k \in stop : \A j \in stop : k <= j) - 1)
\* The whole text after the first colon, trimmed.
AfterFirstColon(t) == Trim(SubSeq(t, ColonAfter(t, 0) + 1, Len(t)))

(* C13: a trimmed non-empty line whose leading token is not exactly a      *)
(* keyword of the dispatch loop makes the parse return InvalidEntry with   *)
(* the line.                                                               *)
C13_OnlyExactKeywords ==
    (/\ LineDone
     /\ Trim(file[1]) # <<>>
     /\ LeadingToken(Trim(file[1])) \notin {<<kw>> : kw \in KeyAtoms}) =>
        result = Err(InvalidEntry(Trim(file[1])))

\* C13 for the lines that do not begin with the letters of a keyword: what
\* holds of the code as it is.
C13_ExceptKeywordPrefix ==
    (/\ LineDone
     /\ Trim(file[1]) # <<>>
     /\ Trim(file[1])[1] \notin KeyAtoms) =>
        result = Err(InvalidEntry(Trim(file[1])))
\* `n: X` has been refused.
C13_Witness ==
    /\ LineDone /\ file[1] = <<"n", ":", " ", "X">>
    /\ result = Err(InvalidEntry(file[1]))

(* C15: the value a NAME or COMMENT line stores is the whole text after    *)
(* the first colon of the line, trimmed.                                   *)
C15_ValueAfterFirstColon ==
    (LineDone /\ HasColon(file[1])) =>
        /\ LeadingToken(Trim(file[1])) = <<K_NAME>> =>
               builder.name = Some(AfterFirstColon(file[1]))
        /\ LeadingToken(Trim(file[1])) = <<K_COMMENT>> =>
               builder.comment = Some(AfterFirstColon(file[1]))

\* C15 for the lines with one colon, `KEY: value` and `KEY : value` alike:
\* what holds of the code as it is.
C15_ExceptSecondColon ==
    (LineDone /\ HasColon(file[1])
              /\ ColonAfter(file[1], ColonAfter(file[1], 0)) > Len(file[1])) =>
        /\ LeadingToken(Trim(file[1])) = <<K_NAME>> =>
               builder.name = Some(AfterFirstColon(file[1]))
        /\ LeadingToken(Trim(file[1])) = <<K_COMMENT>> =>
               builder.comment = Some(AfterFirstColon(file[1]))
\* `NAME : X` has been read and stores X.
C15_Witness ==
    /\ LineDone /\ file[1] = <<K_NAME, " ", ":", " ", "X">>
    /\ builder.name = Some(<<"X">>)

(* C18: a TYPE line whose value is a token of TspKind sets the kind to the *)
(* variant of that token; a TYPE line with any other value makes the parse *)
(* return InvalidInput with key TYPE and that value.                       *)
C18_EnumValueOrInvalidInput ==
    (/\ LineDone /\ HasColon(file[1])
     /\ LeadingToken(Trim(file[1])) = <<K_TYPE>>) =>
        IF AfterFirstColon(file[1]) = <<"TSP">>
        THEN builder.kind = Some("Tsp") /\ pc = "scan"
        ELSE result = Err(InvalidInput(K_TYPE, AfterFirstColon(file[1])))
\* `TYPE: TSP` has set the kind.
C18_Witness ==
    /\ LineDone /\ file[1] = <<K_TYPE, ":", " ", "TSP">>
    /\ builder.kind = Some("Tsp")

============================================================================
